---- MODULE Spec2Model ----
(***************************************************************************)
(* Eno: synthesis pod lifecycle, composition finalizer, and the            *)
(* reconstitution cache, as state machines.                                *)
(*                                                                         *)
(* Part I  (SpecLifecycle): one Composition, its Synthesizer, its worker   *)
(* pods and its ResourceSlices, driven by the pod-lifecycle controller,    *)
(* the slice cleanup, the executor and the API server.                     *)
(* Part II (SpecRecon): the reconstituter (src/unnamed/part_000) filling   *)
(* the reconstitution cache from an informer that may lag the store.       *)
(***************************************************************************)
EXTENDS Integers, Sequences, FiniteSets, TLC

VARIABLES
    \* ---- Part I: pod lifecycle ----
    compExists,     \* the Composition object is in the store
    compDeleting,   \* metadata.deletionTimestamp != nil
    compFinalizer,  \* carries the eno.azure.io/cleanup finalizer
    compGen,        \* metadata.generation
    cur,            \* status.currentSynthesis (NoSyn = nil)
    prev,           \* status.previousSynthesis (NoSyn = nil)
    synExists,      \* the Synthesizer object is in the store
    pods,           \* worker pods labelled for the composition, in list order
    slices,         \* UUIDs of the syntheses whose ResourceSlice exists
    nextUUID,       \* source of fresh synthesis UUIDs
    deleteGen,      \* generation read just before the Delete call (0 = not deleted)
    last,           \* what the last step did
    \* ---- Part II: reconstituter ----
    started,        \* reconstituter.started
    queues,         \* reconstituter.queues
    panicked,       \* AddQueue panicked
    rComp,          \* the composition the reconstituter caches
    written,        \* per synthesis: its generation and the number of slices it wrote
    store,          \* the ResourceSlices in the store
    informer,       \* the ResourceSlices in the informer's cache
    pending,        \* the slice events the informer has not seen yet, in order
    cache,          \* the reconstitution cache: filled syntheses
    queued,         \* the items of each subscriber queue
    rLast,          \* what the last reconstituter step did
    \* --- Part III: the slice controller
    slComp,         \* the composition the slice controller reads: its status
    slSynExists,    \* the composition's synthesizer exists
    slStore,        \* the resource slices in the API server
    slQueue,        \* a request for the composition is in the work queue
    slNext,         \* the name of the next synthesis and of its slice
    slPass,         \* the last step: its outcome and the writes it issued
    \* --- Part IV: the symphony replication controller
    symph,          \* the symphony in the API server
    comps,          \* the compositions of the symphony in the API server
    symphView,      \* the symphony as the controller's informer has it
    symphFresh,     \* the informer has the symphony's latest resource version
    compsView,      \* the compositions as the controller's index lists them
    nextComp,       \* the name of the next composition created
    symPass,        \* the last step: its outcome and the writes it issued
    \* --- Part V: the merge of a resource onto the live object
    mInput,         \* the arguments of Merge: new, old, current, schema
    mOutput,        \* what the last call of Merge returned
    mConverged,     \* current is the stored result of a Merge of new and old
    \* --- Part VI: the deletion predicate of a resource
    dInput,         \* the resource and the composition Deleted is asked about
    dOutput,        \* what the last call of Deleted returned
    \* --- Part VII: the reconciler's questions to a resource
    call,           \* the function asked and its arguments
    result,         \* what the last call returned
    \* --- Part VIII: the symphony aggregation controller
    agSymph,        \* the symphony in the API server
    agComps,        \* the compositions of the symphony, as listed
    agNow,          \* the time
    agPass,         \* the last step: its outcome and the writes it issued
    \* --- Part IX: the two writers of a symphony's status
    stObject,       \* the symphony in the API server, with its resource version
    repCopy,        \* the symphony the replication controller's pass read
    agCopy,         \* the symphony the aggregation controller's pass read
    wrLast          \* the last step and what it sent

lifecycleVars == <<compExists, compDeleting, compFinalizer, compGen, cur, prev,
                   synExists, pods, slices, nextUUID, deleteGen, last>>

reconVars == <<started, queues, panicked, rComp, written, store, informer,
               pending, cache, queued, rLast>>

sliceVars == <<slComp, slSynExists, slStore, slQueue, slNext, slPass>>

symphonyVars == <<symph, comps, symphView, symphFresh, compsView, nextComp, symPass>>

mergeVars == <<mInput, mOutput, mConverged>>

\* what the actions of each part leave alone
deletedVars == <<dInput, dOutput>>

callVars == <<call, result>>

aggregationVars == <<agSymph, agComps, agNow, agPass>>

writersVars == <<stObject, repCopy, agCopy, wrLast>>

restVars == <<sliceVars, symphonyVars, mergeVars, deletedVars, callVars,
              aggregationVars, writersVars>>
besidesLifecycle == <<reconVars, restVars>>
besidesRecon == <<lifecycleVars, restVars>>
besidesSlice == <<lifecycleVars, reconVars, symphonyVars, mergeVars, deletedVars,
    callVars, aggregationVars, writersVars>>
besidesSymphony == <<lifecycleVars, reconVars, sliceVars, mergeVars, deletedVars,
    callVars, aggregationVars, writersVars>>
besidesMerge == <<lifecycleVars, reconVars, sliceVars, symphonyVars, deletedVars,
    callVars, aggregationVars, writersVars>>
besidesDeleted == <<lifecycleVars, reconVars, sliceVars, symphonyVars, mergeVars,
    callVars, aggregationVars, writersVars>>
besidesCall == <<lifecycleVars, reconVars, sliceVars, symphonyVars, mergeVars,
    deletedVars, aggregationVars, writersVars>>
besidesAggregation == <<lifecycleVars, reconVars, sliceVars, symphonyVars,
    mergeVars, deletedVars, callVars, writersVars>>
besidesWriters == <<lifecycleVars, reconVars, sliceVars, symphonyVars,
    mergeVars, deletedVars, callVars, aggregationVars>>

vars == <<lifecycleVars, reconVars, restVars>>

\* ------------------------------------------------------------- bounds
\* the composition's spec is mutated up to generation MaxGen
MaxGen == 2
\* at most MaxUUID syntheses are started
MaxUUID == 2

\* at most MaxInputPods pods in a pod list handed to one pass
MaxInputPods == 3

\* syntheses of the cached composition
MaxSyntheses == 2
\* slices written by one synthesis
MaxSlices == 1
\* subscriber queues that ask to be registered
MaxQueues == 2

\* --------------------------------------------------- program constants
\* The retry ceiling of the container-creation timeout: Attempts = 0 is
\* retried, Attempts = 4 is not (shouldDeletePodTests).
RetryCeiling == 2

NoSyn == [uuid |-> 0]
NoComp == [exists |-> FALSE]

Min(S) == CHOOSE x \in S : \A y \in S : x <= y

\* ------------------------------------------------------------- Part I
\* A worker pod as shouldDeletePod reads it.
\*   deleting  : metadata.deletionTimestamp != nil
\*   gen       : the eno.azure.io/composition-generation annotation
\*   timedOut  : time.Since(creationTimestamp) > synthesizer.spec.podTimeout
\*   schedLate : PodScheduled is true and its last transition is more than the
\*               container-creation timeout ago
\*   container : len(status.containerStatuses) > 0
NewPod(g) ==
    [deleting |-> FALSE, gen |-> g, timedOut |-> FALSE, schedLate |-> FALSE,
     container |-> FALSE]

NewSynthesis(u, g) ==
    [uuid |-> u, gen |-> g, synthesized |-> FALSE, reconciled |-> FALSE,
     canceled |-> FALSE, attempts |-> 0]

\* The composition as the controller reads it from the store.
Comp ==
    IF compExists
    THEN [exists |-> TRUE, deleting |-> compDeleting, generation |-> compGen,
          cur |-> cur]
    ELSE NoComp

Attempts(c) == IF ~c.exists \/ c.cur = NoSyn THEN 0 ELSE c.cur.attempts

IsSynthesized(c) == c.exists /\ c.cur # NoSyn /\ c.cur.synthesized

NumDeleting(ps) == Cardinality({i \in DOMAIN ps : ps[i].deleting})

LivePods(ps) == {i \in DOMAIN ps : ~ps[i].deleting}

\* The pod waited for its container longer than the creation timeout.
ContainerTimedOut(p) == p.schedLate /\ ~p.container

\* Mutant: the retry deletion does not wait for a deleting pod to be gone.
RetryDeletable_IgnoresDeleting(c, p, ps) ==
    /\ ContainerTimedOut(p)
    /\ Attempts(c) < RetryCeiling

\* Mutant: the retry deletion ignores the retry ceiling.
RetryDeletable_NoCeiling(c, p, ps) ==
    /\ ContainerTimedOut(p)
    /\ NumDeleting(ps) = 0

\* Mutant: the retry deletion waits only when several pods are deleting.
RetryDeletable_OneDeleting(c, p, ps) ==
    /\ ContainerTimedOut(p)
    /\ Attempts(c) < RetryCeiling
    /\ NumDeleting(ps) <= 1

\* The container-creation timeout deletes the pod for a retry.
RetryDeletable(c, p, ps) ==
    /\ ContainerTimedOut(p)
    /\ Attempts(c) < RetryCeiling
    /\ NumDeleting(ps) = 0

\* Whether the non-deleting pod p should be deleted.
Deletable(c, synth, p, ps) ==
    \/ ~c.exists
    \/ c.deleting
    \/ ~synth
    \/ p.gen # c.generation
    \/ IsSynthesized(c)
    \/ p.timedOut
    \/ RetryDeletable(c, p, ps)

\* Mutant: a pod that is kept is reported as not existing.
shouldDeletePod_KeptNotExisting(c, synth, ps) ==
    IF Len(ps) = 0 THEN [pod |-> 0, exists |-> FALSE]
    ELSE IF NumDeleting(ps) > 1 THEN [pod |-> 0, exists |-> TRUE]
    ELSE IF LivePods(ps) = {} THEN [pod |-> 0, exists |-> FALSE]
    ELSE LET i == Min(LivePods(ps)) IN
         IF Deletable(c, synth, ps[i], ps)
         THEN [pod |-> i, exists |-> TRUE]
         ELSE [pod |-> 0, exists |-> FALSE]

\* Mutant: no back-off when several pods are deleting.
shouldDeletePod_NoBackOff(c, synth, ps) ==
    IF Len(ps) = 0 THEN [pod |-> 0, exists |-> FALSE]
    ELSE IF LivePods(ps) = {} THEN [pod |-> 0, exists |-> FALSE]
    ELSE LET i == Min(LivePods(ps)) IN
         IF Deletable(c, synth, ps[i], ps)
         THEN [pod |-> i, exists |-> TRUE]
         ELSE [pod |-> 0, exists |-> TRUE]

\* shouldDeletePod(comp, syn, pods): pod is the index of the pod to delete
\* (0: none) and exists says that a pod still occupies the composition.
shouldDeletePod(c, synth, ps) ==
    IF Len(ps) = 0 THEN [pod |-> 0, exists |-> FALSE]
    ELSE IF NumDeleting(ps) > 1 THEN [pod |-> 0, exists |-> TRUE]
    ELSE IF LivePods(ps) = {} THEN [pod |-> 0, exists |-> FALSE]
    ELSE LET i == Min(LivePods(ps)) IN
         IF Deletable(c, synth, ps[i], ps)
         THEN [pod |-> i, exists |-> TRUE]
         ELSE [pod |-> 0, exists |-> TRUE]

\* The pod after the API server stamped its deletion timestamp. Nothing reads
\* another field of a deleting pod (shouldDeletePod skips it), so only the
\* deletion timestamp is kept.
Deleting(p) ==
    [deleting |-> TRUE, gen |-> 0, timedOut |-> FALSE, schedLate |-> FALSE,
     container |-> FALSE]

RemoveAt(ps, i) == [j \in 1..(Len(ps) - 1) |-> IF j < i THEN ps[j] ELSE ps[j + 1]]

\* The slices a synthesis status references.
Referenced == {s.uuid : s \in {cur, prev} \ {NoSyn}}

\* A composition needs (re)synthesis.
NeedsSynthesis == cur = NoSyn \/ cur.gen < compGen

\* Mutant: the slices of a deleted composition's reconciled synthesis are
\* never collected.
SliceDeletable_NotOnDeletion(u) ==
    \/ ~compExists
    \/ u \notin Referenced
    \/ prev # NoSyn /\ u = prev.uuid /\ cur # NoSyn /\ cur.reconciled

\* A slice may be garbage-collected.
SliceDeletable(u) ==
    \/ ~compExists
    \/ u \notin Referenced
    \/ prev # NoSyn /\ u = prev.uuid /\ cur # NoSyn /\ cur.reconciled
    \/ /\ compDeleting
       /\ cur # NoSyn /\ cur.reconciled /\ cur.gen >= compGen

\* Mutant: the finalizer is released without looking at the slices.
MayReleaseFinalizer_Always == TRUE

\* Mutant: a missing synthesizer does not release the finalizer.
MayReleaseFinalizer_SlicesOnly == slices = {}

\* The finalizer may be released.
MayReleaseFinalizer == ~synExists \/ slices = {}

\* Part II at rest, while Part I runs.
ReconIdle ==
    /\ started = FALSE
    /\ queues = <<>>
    /\ panicked = FALSE
    /\ rComp = [exists |-> FALSE]
    /\ written = <<>>
    /\ store = {}
    /\ informer = {}
    /\ pending = <<>>
    /\ cache = {}
    /\ queued = <<>>
    /\ rLast = "init"

\* Part III at rest.
SliceIdle ==
    /\ slComp = [exists |-> FALSE]
    /\ slSynExists = FALSE
    /\ slStore = {}
    /\ slQueue = FALSE
    /\ slNext = 1
    /\ slPass = [step |-> "idle", writes |-> <<>>]

\* No symphony.
NoSymphony ==
    [exists |-> FALSE, deleting |-> FALSE, finalizer |-> FALSE,
     variations |-> {}, cfg |-> 0, annotations |-> 0, env |-> 0, status |-> <<>>]

\* Part IV at rest.
SymphonyIdle ==
    /\ symph = NoSymphony
    /\ comps = {}
    /\ symphView = NoSymphony
    /\ symphFresh = TRUE
    /\ compsView = {}
    /\ nextComp = 1
    /\ symPass = [step |-> "idle", writes |-> <<>>]

\* Part V at rest.
MergeIdle ==
    /\ mInput = [idle |-> TRUE]
    /\ mOutput = [out |-> "idle"]
    /\ mConverged = FALSE

\* Part VI at rest.
DeletedIdle ==
    /\ dInput = [idle |-> TRUE]
    /\ dOutput = "idle"

\* Part VII at rest.
CallIdle ==
    /\ call = [fn |-> "idle"]
    /\ result = [out |-> "idle"]

\* Part VIII at rest.
AggregationIdle ==
    /\ agSymph = [exists |-> FALSE]
    /\ agComps = <<>>
    /\ agNow = 0
    /\ agPass = [step |-> "idle", writes |-> <<>>]

\* Part IX at rest.
WritersIdle ==
    /\ stObject = [rv |-> 0]
    /\ repCopy = [rv |-> 0]
    /\ agCopy = [rv |-> 0]
    /\ wrLast = [step |-> "idle"]

\* The parts after Part II at rest.
RestIdle ==
    /\ SliceIdle /\ SymphonyIdle /\ MergeIdle /\ DeletedIdle /\ CallIdle
    /\ AggregationIdle /\ WritersIdle

LifecycleInit ==
    /\ ReconIdle
    /\ RestIdle
    /\ compExists = TRUE
    /\ compDeleting = FALSE
    /\ compFinalizer = FALSE
    /\ compGen = 1
    /\ cur = NoSyn
    /\ prev = NoSyn
    /\ synExists = TRUE
    /\ pods = <<>>
    /\ slices = {}
    /\ nextUUID = 1
    /\ deleteGen = 0
    /\ last = "init"

\* Mutant: deleting a worker is not counted.
AfterPodDeletion_NotCounted(s) == s

\* Deleting a pod that never reported Synthesized counts as an attempt.
AfterPodDeletion(s) ==
    IF compExists /\ s # NoSyn /\ ~s.synthesized
    THEN [s EXCEPT !.attempts = @ + 1]
    ELSE s

\* One pass of the pod-lifecycle controller for the composition.
PodLifecycleReconcile ==
    LET r == shouldDeletePod(Comp, synExists, pods) IN
    IF r.pod # 0 THEN
        /\ pods' = [pods EXCEPT ![r.pod] = Deleting(@)]
        /\ cur' = AfterPodDeletion(cur)
        /\ last' = "deletePod"
        /\ UNCHANGED <<besidesLifecycle, compExists, compDeleting, compFinalizer, compGen, prev,
                       synExists, slices, nextUUID, deleteGen>>
    ELSE IF r.exists THEN
        /\ last' = (IF NumDeleting(pods) > 1 THEN "backoff" ELSE "wait")
        /\ UNCHANGED <<besidesLifecycle, compExists, compDeleting, compFinalizer, compGen, cur, prev,
                       synExists, pods, slices, nextUUID, deleteGen>>
    ELSE IF ~compExists THEN
        /\ last' = "idle"
        /\ UNCHANGED <<besidesLifecycle, compExists, compDeleting, compFinalizer, compGen, cur, prev,
                       synExists, pods, slices, nextUUID, deleteGen>>
    ELSE IF compDeleting THEN
        IF MayReleaseFinalizer THEN
            \* the API server removes a deleting object with its last finalizer
            /\ compFinalizer' = FALSE
            /\ compExists' = FALSE
            /\ compDeleting' = FALSE
            /\ cur' = NoSyn
            /\ prev' = NoSyn
            /\ last' = "release"
            /\ UNCHANGED <<besidesLifecycle, compGen, synExists, pods, slices, nextUUID, deleteGen>>
        ELSE IF cur # NoSyn /\ cur.gen < compGen THEN
            \* reflect the deletion in the status without synthesizing
            /\ cur' = [cur EXCEPT !.gen = compGen, !.reconciled = FALSE]
            /\ last' = "observeDeletion"
            /\ UNCHANGED <<besidesLifecycle, compExists, compDeleting, compFinalizer, compGen, prev,
                           synExists, pods, slices, nextUUID, deleteGen>>
        ELSE
            /\ last' = "idle"
            /\ UNCHANGED <<besidesLifecycle, compExists, compDeleting, compFinalizer, compGen, cur,
                           prev, synExists, pods, slices, nextUUID, deleteGen>>
    ELSE IF ~compFinalizer THEN
        /\ compFinalizer' = TRUE
        /\ last' = "addFinalizer"
        /\ UNCHANGED <<besidesLifecycle, compExists, compDeleting, compGen, cur, prev, synExists,
                       pods, slices, nextUUID, deleteGen>>
    ELSE IF ~synExists THEN
        /\ last' = "idle"
        /\ UNCHANGED <<besidesLifecycle, compExists, compDeleting, compFinalizer, compGen, cur, prev,
                       synExists, pods, slices, nextUUID, deleteGen>>
    ELSE IF NeedsSynthesis THEN
        IF nextUUID <= MaxUUID THEN
            /\ prev' = (IF cur # NoSyn /\ cur.synthesized THEN cur ELSE prev)
            /\ cur' = NewSynthesis(nextUUID, compGen)
            /\ nextUUID' = nextUUID + 1
            /\ last' = "rotate"
            /\ UNCHANGED <<besidesLifecycle, compExists, compDeleting, compFinalizer, compGen,
                           synExists, pods, slices, deleteGen>>
        ELSE
            /\ last' = "idle"
            /\ UNCHANGED <<besidesLifecycle, compExists, compDeleting, compFinalizer, compGen, cur,
                           prev, synExists, pods, slices, nextUUID, deleteGen>>
    ELSE IF cur.synthesized \/ cur.canceled THEN
        /\ last' = "idle"
        /\ UNCHANGED <<besidesLifecycle, compExists, compDeleting, compFinalizer, compGen, cur, prev,
                       synExists, pods, slices, nextUUID, deleteGen>>
    ELSE IF cur.attempts >= RetryCeiling THEN
        /\ cur' = [cur EXCEPT !.canceled = TRUE]
        /\ last' = "cancel"
        /\ UNCHANGED <<besidesLifecycle, compExists, compDeleting, compFinalizer, compGen, prev,
                       synExists, pods, slices, nextUUID, deleteGen>>
    ELSE
        /\ pods' = Append(pods, NewPod(compGen))
        /\ last' = "create"
        /\ UNCHANGED <<besidesLifecycle, compExists, compDeleting, compFinalizer, compGen, cur, prev,
                       synExists, slices, nextUUID, deleteGen>>

\* ---- the environment of the controller ----

\* The kubelet finishes terminating a deleting pod.
PodTerminated ==
    \E i \in DOMAIN pods :
        /\ pods[i].deleting
        /\ pods' = RemoveAt(pods, i)
        /\ last' = "env"
        /\ UNCHANGED <<besidesLifecycle, compExists, compDeleting, compFinalizer, compGen, cur, prev,
                       synExists, slices, nextUUID, deleteGen>>

\* Time passes for a running pod, or the kubelet creates its container.
PodProgress ==
    \E i \in DOMAIN pods :
        /\ ~pods[i].deleting
        /\ \/ ~pods[i].timedOut /\ pods' = [pods EXCEPT ![i].timedOut = TRUE]
           \/ ~pods[i].schedLate /\ pods' = [pods EXCEPT ![i].schedLate = TRUE]
           \/ ~pods[i].container /\ pods' = [pods EXCEPT ![i].container = TRUE]
        /\ last' = "env"
        /\ UNCHANGED <<besidesLifecycle, compExists, compDeleting, compFinalizer, compGen, cur, prev,
                       synExists, slices, nextUUID, deleteGen>>

\* The worker delivers its manifests: a slice is written and the synthesis
\* is stamped Synthesized.
WorkerCompletes ==
    \E i \in DOMAIN pods :
        /\ ~pods[i].deleting /\ pods[i].container
        /\ compExists /\ ~compDeleting
        /\ cur # NoSyn /\ ~cur.synthesized /\ ~cur.canceled
        /\ pods[i].gen = cur.gen
        /\ cur' = [cur EXCEPT !.synthesized = TRUE]
        /\ slices' = slices \cup {cur.uuid}
        /\ last' = "env"
        /\ UNCHANGED <<besidesLifecycle, compExists, compDeleting, compFinalizer, compGen, prev,
                       synExists, pods, nextUUID, deleteGen>>

\* The reconciliation controller reports every resource reconciled.
MarkReconciled ==
    /\ compExists
    /\ cur # NoSyn /\ cur.synthesized /\ ~cur.reconciled
    /\ cur' = [cur EXCEPT !.reconciled = TRUE]
    /\ last' = "env"
    /\ UNCHANGED <<besidesLifecycle, compExists, compDeleting, compFinalizer, compGen, prev,
                   synExists, pods, slices, nextUUID, deleteGen>>

\* The slice cleanup garbage-collects one slice.
SliceCleanup ==
    \E u \in slices :
        /\ SliceDeletable(u)
        /\ slices' = slices \ {u}
        /\ prev' = (IF compExists /\ prev # NoSyn /\ prev.uuid = u THEN NoSyn ELSE prev)
        /\ last' = "env"
        /\ UNCHANGED <<besidesLifecycle, compExists, compDeleting, compFinalizer, compGen, cur,
                       synExists, pods, nextUUID, deleteGen>>

\* A user changes the composition's spec.
MutateComposition ==
    /\ compExists /\ ~compDeleting
    /\ compGen < MaxGen
    /\ compGen' = compGen + 1
    /\ last' = "env"
    /\ UNCHANGED <<besidesLifecycle, compExists, compDeleting, compFinalizer, cur, prev, synExists,
                   pods, slices, nextUUID, deleteGen>>

\* A user deletes the composition: with a finalizer the API server stamps the
\* deletion timestamp (and bumps the generation), without one it removes it.
DeleteComposition ==
    /\ compExists /\ ~compDeleting
    /\ deleteGen' = compGen
    /\ IF compFinalizer
       THEN compDeleting' = TRUE /\ compGen' = compGen + 1 /\ compExists' = TRUE
       ELSE compDeleting' = compDeleting /\ compGen' = compGen /\ compExists' = FALSE
    /\ last' = "env"
    /\ UNCHANGED <<besidesLifecycle, compFinalizer, cur, prev, synExists, pods, slices, nextUUID>>

\* A user deletes the synthesizer.
DeleteSynthesizer ==
    /\ synExists
    /\ synExists' = FALSE
    /\ last' = "env"
    /\ UNCHANGED <<besidesLifecycle, compExists, compDeleting, compFinalizer, compGen, cur, prev,
                   pods, slices, nextUUID, deleteGen>>

\* A pod labelled for the composition is created by hand after the composition
\* is gone (TestNonExistentComposition).
CreateOrphanPod ==
    /\ ~compExists
    /\ pods = <<>>
    /\ pods' = <<NewPod(compGen)>>
    /\ last' = "env"
    /\ UNCHANGED <<besidesLifecycle, compExists, compDeleting, compFinalizer, compGen, cur, prev,
                   synExists, slices, nextUUID, deleteGen>>

LifecycleNext ==
    \/ PodLifecycleReconcile
    \/ CreateOrphanPod
    \/ PodTerminated
    \/ PodProgress
    \/ WorkerCompletes
    \/ MarkReconciled
    \/ SliceCleanup
    \/ MutateComposition
    \/ DeleteComposition
    \/ DeleteSynthesizer

SpecLifecycle == LifecycleInit /\ [][LifecycleNext]_vars

\* Controllers are re-enqueued by the watch events of what they own, the
\* kubelet terminates a deleting pod, and the reconciliation controller keeps
\* reconciling: none of them is postponed forever.
SpecLifecycleFair ==
    /\ SpecLifecycle
    /\ WF_vars(PodLifecycleReconcile)
    /\ WF_vars(PodTerminated)
    /\ WF_vars(SliceCleanup)

\* ---- one pass on a given input (TestShouldDeletePod) ----

\* The pods a pass may be handed: any number of deleting pods and at most one
\* pod that is not deleting, in any list position.
LivePodInputs ==
    [deleting : {FALSE}, gen : 1..2, timedOut : BOOLEAN, schedLate : BOOLEAN,
     container : BOOLEAN]

PodInputs ==
    UNION {
        {[i \in 1..n |-> Deleting(NewPod(1))]}
        \cup {[i \in 1..n |-> IF i = k THEN p ELSE Deleting(NewPod(1))] :
                  k \in 1..n, p \in LivePodInputs}
        : n \in 0..MaxInputPods }

SynthesisInputs ==
    {NoSyn} \cup
    {[NewSynthesis(1, 1) EXCEPT !.synthesized = sy, !.attempts = a] :
        sy \in BOOLEAN, a \in 0..RetryCeiling}

PassInit ==
    /\ ReconIdle
    /\ RestIdle
    /\ compExists \in BOOLEAN
    /\ compDeleting \in (IF compExists THEN BOOLEAN ELSE {FALSE})
    /\ compFinalizer = compExists
    /\ compGen = (IF compDeleting THEN 2 ELSE 1)
    /\ deleteGen = (IF compDeleting THEN 1 ELSE 0)
    /\ cur \in (IF compExists THEN SynthesisInputs ELSE {NoSyn})
    /\ prev = NoSyn
    /\ synExists \in BOOLEAN
    /\ pods \in PodInputs
    /\ slices = (IF cur # NoSyn /\ cur.synthesized THEN {cur.uuid} ELSE {})
    /\ nextUUID = (IF cur # NoSyn THEN 2 ELSE 1)
    /\ last = "init"

PassNext == PodLifecycleReconcile

SpecPass == PassInit /\ [][PassNext]_vars

\* ------------------------------------------------ claims of Part I
\* What shouldDeletePod answers in the current state.
Decision == shouldDeletePod(Comp, synExists, pods)

\* C1: at most one worker pod of the composition exists without a deletion
\* timestamp, and a pass that sees only one deleting pod reports that no pod
\* exists.
C1_AtMostOneLivePod ==
    /\ Cardinality(LivePods(pods)) <= 1
    /\ (Len(pods) = 1 /\ NumDeleting(pods) = 1 => ~Decision.exists)

\* C1 witness: a replacement worker was created while its predecessor is
\* still terminating.
C1_Witness ==
    /\ last = "create"
    /\ NumDeleting(pods) = 1
    /\ Cardinality(LivePods(pods)) = 1

\* C2: with more than one pod already deleting, shouldDeletePod returns no pod
\* and reports that a pod exists, and the pass neither deletes nor creates a
\* pod.
C2_BackOff ==
    /\ [](NumDeleting(pods) > 1 => Decision = [pod |-> 0, exists |-> TRUE])
    /\ [][(NumDeleting(pods) > 1 /\ last' # "env")
            => (pods' = pods /\ last' = "backoff")]_vars

\* C2 witness: a pass backed off on two deleting pods.
C2_Witness == last = "backoff" /\ NumDeleting(pods) = 2

\* The reasons the claim C3 lists for deleting the pod p.
ListedReason(p) ==
    \/ ~compExists
    \/ compDeleting
    \/ ~synExists
    \/ p.gen # compGen
    \/ IsSynthesized(Comp)
    \/ p.timedOut
    \/ (ContainerTimedOut(p) /\ Attempts(Comp) < RetryCeiling)

\* C3 as stated: the non-deleting pod is selected iff one of the listed
\* reasons holds, and is otherwise kept and reported as existing.
C3_Original ==
    \A i \in LivePods(pods) :
        /\ (Decision.pod = i) <=> ListedReason(pods[i])
        /\ Decision.pod # i => Decision = [pod |-> 0, exists |-> TRUE]

\* The container-creation timeout is the only listed reason of p.
OnlyContainerTimeout(p) ==
    /\ ContainerTimedOut(p) /\ Attempts(Comp) < RetryCeiling
    /\ compExists /\ ~compDeleting /\ synExists /\ p.gen = compGen
    /\ ~IsSynthesized(Comp) /\ ~p.timedOut

\* C3 amended: while at most one pod is deleting, the non-deleting pod is
\* selected iff one of the listed reasons holds, where the container-creation
\* timeout counts only if no other pod of the composition is deleting;
\* otherwise it is kept and reported as existing.
C3_Amended ==
    \A i \in LivePods(pods) :
        NumDeleting(pods) <= 1 =>
            /\ (Decision.pod = i) <=>
                    /\ ListedReason(pods[i])
                    /\ ~(OnlyContainerTimeout(pods[i]) /\ NumDeleting(pods) > 0)
            /\ Decision.pod # i => Decision = [pod |-> 0, exists |-> TRUE]

\* C3 witness: a pass kept a pod whose container timed out, because another
\* pod is still deleting.
C3_Witness ==
    /\ last = "wait"
    /\ NumDeleting(pods) = 1
    /\ \E i \in LivePods(pods) : OnlyContainerTimeout(pods[i])

\* A reason other than the container-creation timeout to delete the pod p.
OtherReason(p) ==
    \/ ~compExists
    \/ compDeleting
    \/ ~synExists
    \/ p.gen # compGen
    \/ IsSynthesized(Comp)
    \/ p.timedOut

\* the pods the container-creation timeout alone would delete
WaitingForContainer ==
    {i \in LivePods(pods) : ContainerTimedOut(pods[i]) /\ ~OtherReason(pods[i])}

DeletedWithSynthesis ==
    compExists /\ compDeleting /\ cur # NoSyn /\ cur.synthesized

\* CurrentSynthesis.ObservedCompositionGeneration (0 without a synthesis).
ObservedGen == IF cur = NoSyn THEN 0 ELSE cur.gen

\* CurrentSynthesis.Reconciled is set.
IsReconciled == cur # NoSyn /\ cur.reconciled

\* C6 as stated: after deletion the current synthesis eventually observes the
\* generation at deletion, the composition exists while the synthesis is not
\* Reconciled, and it is eventually removed once Reconciled.
C6_Original ==
    /\ DeletedWithSynthesis ~> (~compExists \/ ObservedGen >= deleteGen)
    /\ [][(DeletedWithSynthesis /\ ~compExists') => IsReconciled]_vars
    /\ (DeletedWithSynthesis /\ IsReconciled /\ ObservedGen >= compGen) ~> ~compExists

\* C6 amended: as C6, except that the composition is kept while the synthesis is
\* not Reconciled only as long as the synthesizer exists.
C6_Amended ==
    /\ DeletedWithSynthesis ~> (~compExists \/ ObservedGen >= deleteGen)
    /\ [][(DeletedWithSynthesis /\ ~compExists') => (IsReconciled \/ ~synExists)]_vars
    /\ (DeletedWithSynthesis /\ IsReconciled /\ ObservedGen >= compGen) ~> ~compExists

\* C6 witness: the deleted composition's synthesis observed the deletion, was
\* reconciled, and its slices are collected.
C6_Witness ==
    /\ DeletedWithSynthesis
    /\ synExists
    /\ deleteGen > 0 /\ ObservedGen >= compGen /\ compGen > deleteGen
    /\ IsReconciled
    /\ slices = {}

\* C7: a deleting composition whose synthesizer is missing is eventually
\* removed.
C7_SynthesizerMissing ==
    (compExists /\ compDeleting /\ ~synExists) ~> ~compExists

\* C7 witness: the finalizer was released with the synthesizer missing while a
\* slice of the unreconciled synthesis still exists.
C7_Witness ==
    /\ last = "release"
    /\ ~synExists
    /\ slices # {}

\* ------------------------------------------------------------ Part II
\* The reconstituter of src/unnamed/part_000. The composition status holds
\* PreviousState and CurrentState; a state is NoSyn (nil) or
\*   [uuid, gen (ObservedCompositionGeneration), count (ResourceSliceCount)]
\* with count = NilCount until the synthesis is complete. A slice is
\*   [uuid (its synthesis), gen (its composition generation), idx]
\* and holds one manifest, of the resource Ref idx.
NilCount == -1

QueueIds == 1..MaxQueues

\* Every slice the synthesis u wrote.
Produced(u) ==
    IF u \in DOMAIN written
    THEN {[uuid |-> u, gen |-> written[u].gen, idx |-> i] : i \in 1..written[u].n}
    ELSE {}

\* client.List by IdxSlicesByCompositionGeneration (comp.Name, generation),
\* served from the informer's cache.
ListSlices(g) == {sl \in informer : sl.gen = g}

\* cache.HasSynthesis
HasSynthesis(c, syn) == \E e \in c : e.uuid = syn.uuid

\* cache.Fill: parses every manifest of every slice and stores the resources
\* under the synthesis; returns one request per resource Ref, or an error
\* (fails: a manifest does not parse).
Fill(c, syn, items, fails) ==
    IF fails /\ items # {}
    THEN [cache |-> c, reqs |-> {}, err |-> TRUE]
    ELSE [cache |-> c \cup {[uuid |-> syn.uuid, slices |-> items]},
          reqs |-> {sl.idx : sl \in items}, err |-> FALSE]

\* cache.Purge: drops the syntheses the composition no longer references;
\* with a nil composition, all of them.
Purge(c, comp) ==
    IF ~comp.exists THEN {}
    ELSE {e \in c : e.uuid \in {comp.prev.uuid, comp.cur.uuid} \ {0}}

\* Mutant: the requests reach the first registered queue only.
Enqueue_FirstQueueOnly(qd, reqs) ==
    [q \in DOMAIN qd |-> IF q = 1 THEN qd[q] \cup reqs ELSE qd[q]]

\* queue.Add(req) for every request and every registered queue.
Enqueue(qd, reqs) == [q \in DOMAIN qd |-> qd[q] \cup reqs]

\* Mutant: a slice count that differs from ResourceSliceCount is not taken
\* for a stale informer.
populateCache_NoCountCheck(st, syn, fail) ==
    IF syn = NoSyn THEN [st EXCEPT !.out = "nil"]
    ELSE IF syn.count = NilCount THEN [st EXCEPT !.out = "incomplete"]
    ELSE IF HasSynthesis(st.cache, syn) THEN [st EXCEPT !.out = "cached"]
    ELSE IF fail = "list" THEN [st EXCEPT !.out = "listError", !.err = TRUE]
    ELSE LET f == Fill(st.cache, syn, ListSlices(syn.gen), fail = "fill") IN
         IF f.err THEN [st EXCEPT !.out = "fillError", !.err = TRUE]
         ELSE [cache |-> f.cache, queued |-> Enqueue(st.queued, f.reqs),
               err |-> FALSE, out |-> "filled"]

\* Mutant: a synthesis is filled whether or not the cache has it.
populateCache_NoHasSynthesis(st, syn, fail) ==
    IF syn = NoSyn THEN [st EXCEPT !.out = "nil"]
    ELSE IF syn.count = NilCount THEN [st EXCEPT !.out = "incomplete"]
    ELSE IF fail = "list" THEN [st EXCEPT !.out = "listError", !.err = TRUE]
    ELSE IF Cardinality(ListSlices(syn.gen)) # syn.count
         THEN [st EXCEPT !.out = "stale"]
    ELSE LET f == Fill(st.cache, syn, ListSlices(syn.gen), fail = "fill") IN
         IF f.err THEN [st EXCEPT !.out = "fillError", !.err = TRUE]
         ELSE [cache |-> f.cache, queued |-> Enqueue(st.queued, f.reqs),
               err |-> FALSE, out |-> "filled"]

\* reconstituter.populateCache on st = [cache, queued, err, out]: out names
\* the return taken.
populateCache(st, syn, fail) ==
    IF syn = NoSyn THEN [st EXCEPT !.out = "nil"]
    ELSE IF syn.count = NilCount THEN [st EXCEPT !.out = "incomplete"]
    ELSE IF HasSynthesis(st.cache, syn) THEN [st EXCEPT !.out = "cached"]
    ELSE IF fail = "list" THEN [st EXCEPT !.out = "listError", !.err = TRUE]
    ELSE IF Cardinality(ListSlices(syn.gen)) # syn.count
         THEN [st EXCEPT !.out = "stale"]
    ELSE LET f == Fill(st.cache, syn, ListSlices(syn.gen), fail = "fill") IN
         IF f.err THEN [st EXCEPT !.out = "fillError", !.err = TRUE]
         ELSE [cache |-> f.cache, queued |-> Enqueue(st.queued, f.reqs),
               err |-> FALSE, out |-> "filled"]

\* Part I at rest, while Part II runs.
LifecycleIdle ==
    /\ compExists = FALSE
    /\ compDeleting = FALSE
    /\ compFinalizer = FALSE
    /\ compGen = 1
    /\ cur = NoSyn
    /\ prev = NoSyn
    /\ synExists = FALSE
    /\ pods = <<>>
    /\ slices = {}
    /\ nextUUID = 1
    /\ deleteGen = 0
    /\ last = "init"

ReconInit ==
    /\ LifecycleIdle
    /\ RestIdle
    /\ started = FALSE
    /\ queues = <<>>
    /\ panicked = FALSE
    /\ rComp = [exists |-> TRUE, prev |-> NoSyn, cur |-> NoSyn]
    /\ written = <<>>
    /\ store = {}
    /\ informer = {}
    /\ pending = <<>>
    /\ cache = {}
    /\ queued = <<>>
    /\ rLast = "init"

\* Mutant: AddQueue does not look at started.
AddQueueGuard_Missing == FALSE

\* AddQueue's guard: r.started.Load()
AddQueueGuard == started

\* reconstituter.AddQueue(queue)
AddQueue ==
    \E q \in QueueIds :
        /\ ~panicked
        /\ q = Len(queues) + 1
        /\ IF AddQueueGuard
           THEN /\ panicked' = TRUE
                /\ rLast' = "panic"
                /\ UNCHANGED <<queues, queued>>
           ELSE /\ queues' = Append(queues, q)
                /\ queued' = Append(queued, {})
                /\ rLast' = "addQueue"
                /\ UNCHANGED panicked
        /\ UNCHANGED <<besidesRecon, started, rComp, written, store,
                       informer, pending, cache>>

\* The state populateCache starts from.
CacheState == [cache |-> cache, queued |-> queued, err |-> FALSE, out |-> "none"]

\* Mutant: Reconcile returns without purging.
PurgeCall_Missing(c) == c

\* Reconcile's call r.cache.Purge(ctx, req.NamespacedName, comp), with a nil
\* comp when the composition is not found.
PurgeCall(c) == Purge(c, rComp)

\* What fails in the populateCache call on the previous state.
FailAtPrevious(fail) == IF fail = "fillCurrent" THEN "none" ELSE fail

\* What fails in the populateCache call on the current state.
FailAtCurrent(fail) == IF fail = "fillCurrent" THEN "fill" ELSE fail

\* reconstituter.Reconcile for the composition. fail names the call that
\* fails in this pass: none, the Get, every List, every Fill, or only the
\* Fill of the current state.
Reconcile ==
    \E fail \in {"none", "get", "list", "fill", "fillCurrent"} :
        /\ ~panicked
        /\ started' = TRUE
        /\ IF fail = "get" THEN
               /\ rLast' = "error"
               /\ UNCHANGED <<cache, queued>>
           ELSE IF ~rComp.exists THEN
               /\ cache' = PurgeCall(cache)
               /\ rLast' = "ok"
               /\ UNCHANGED queued
           ELSE
               LET st1 == populateCache(CacheState, rComp.prev, FailAtPrevious(fail))
                   st2 == populateCache([st1 EXCEPT !.out = "none"], rComp.cur,
                                        FailAtCurrent(fail))
               IN
               IF st1.err THEN
                   /\ cache' = st1.cache
                   /\ queued' = st1.queued
                   /\ rLast' = "error"
               ELSE IF st2.err THEN
                   /\ cache' = st2.cache
                   /\ queued' = st2.queued
                   /\ rLast' = "error"
               ELSE
                   /\ cache' = PurgeCall(st2.cache)
                   /\ queued' = st2.queued
                   /\ rLast' = "ok"
        /\ UNCHANGED <<besidesRecon, queues, panicked, rComp, written, store, informer, pending>>

\* ---- the environment of the reconstituter ----

\* The synthesis controller swaps the states for a new synthesis, of the same
\* composition generation (the synthesizer or an input changed) or of a
\* newer one.
BeginSynthesis ==
    \E g \in 1..MaxGen :
        /\ rComp.exists
        /\ Len(written) < MaxSyntheses
        /\ (IF rComp.cur = NoSyn THEN g = 1
            ELSE rComp.cur.count # NilCount /\ g \in {rComp.cur.gen, rComp.cur.gen + 1})
        /\ rComp' = [rComp EXCEPT !.prev = rComp.cur,
                                  !.cur = [uuid |-> Len(written) + 1, gen |-> g,
                                           count |-> NilCount]]
        /\ written' = Append(written, [gen |-> g, n |-> 0])
        /\ rLast' = "env"
        /\ UNCHANGED <<besidesRecon, started, queues, panicked, store, informer,
                       pending, cache, queued>>

\* The synthesis in progress writes its next slice.
WriteSlice ==
    /\ rComp.exists
    /\ rComp.cur # NoSyn
    /\ rComp.cur.count = NilCount
    /\ written[rComp.cur.uuid].n < MaxSlices
    /\ LET sl == [uuid |-> rComp.cur.uuid, gen |-> rComp.cur.gen,
                  idx |-> written[rComp.cur.uuid].n + 1]
       IN /\ store' = store \cup {sl}
          /\ pending' = Append(pending, [op |-> "add", slice |-> sl])
    /\ written' = [written EXCEPT ![rComp.cur.uuid].n = @ + 1]
    /\ rLast' = "env"
    /\ UNCHANGED <<besidesRecon, started, queues, panicked, rComp,
                   informer, cache, queued>>

\* The synthesis in progress completes: ResourceSliceCount is set.
CompleteSynthesis ==
    /\ rComp.exists
    /\ rComp.cur # NoSyn
    /\ rComp.cur.count = NilCount
    /\ rComp' = [rComp EXCEPT !.cur.count = written[rComp.cur.uuid].n]
    /\ rLast' = "env"
    /\ UNCHANGED <<besidesRecon, started, queues, panicked, written,
                   store, informer, pending, cache, queued>>

\* A slice that the current synthesis does not own is garbage-collected:
\* the slices of the oldest synthesis first, in the order they were written.
CollectSlice ==
    \E sl \in store :
        /\ \A o \in store : o.uuid > sl.uuid \/ (o.uuid = sl.uuid /\ o.idx >= sl.idx)
        /\ (IF ~rComp.exists THEN TRUE
            ELSE rComp.cur # NoSyn /\ rComp.cur.uuid # sl.uuid
                 /\ rComp.cur.count # NilCount)
        /\ store' = store \ {sl}
        /\ pending' = Append(pending, [op |-> "del", slice |-> sl])
        /\ rLast' = "env"
        /\ UNCHANGED <<besidesRecon, started, queues, panicked, rComp, written, informer, cache, queued>>

\* The informer receives the next slice event.
InformerSync ==
    /\ pending # <<>>
    /\ informer' = (IF Head(pending).op = "add"
                    THEN informer \cup {Head(pending).slice}
                    ELSE informer \ {Head(pending).slice})
    /\ pending' = Tail(pending)
    /\ rLast' = "env"
    /\ UNCHANGED <<besidesRecon, started, queues, panicked, rComp, written,
                   store, cache, queued>>

\* The synthesis controller drops the previous state once none of its slices
\* is left in the store.
DiscardPrevious ==
    /\ rComp.exists
    /\ rComp.prev # NoSyn
    /\ \A sl \in store : sl.uuid # rComp.prev.uuid
    /\ rComp' = [rComp EXCEPT !.prev = NoSyn]
    /\ rLast' = "env"
    /\ UNCHANGED <<besidesRecon, started, queues, panicked, written,
                   store, informer, pending, cache, queued>>

\* The composition is removed from the store.
RemoveComposition ==
    /\ rComp.exists
    /\ rComp' = [exists |-> FALSE, prev |-> NoSyn, cur |-> NoSyn]
    /\ rLast' = "env"
    /\ UNCHANGED <<besidesRecon, started, queues, panicked, written,
                   store, informer, pending, cache, queued>>

ReconNext ==
    \/ AddQueue
    \/ Reconcile
    \/ BeginSynthesis
    \/ WriteSlice
    \/ CompleteSynthesis
    \/ CollectSlice
    \/ InformerSync
    \/ DiscardPrevious
    \/ RemoveComposition

SpecRecon == ReconInit /\ [][ReconNext]_vars

\* A pass of Reconcile that returns without error.
ReconcileOk == Reconcile /\ rLast' = "ok"

\* The controller is started for every event of the composition and an
\* error is retried; the informer delivers every slice event.
SpecReconFair ==
    /\ SpecRecon
    /\ WF_vars(ReconcileOk)
    /\ WF_vars(InformerSync)

\* ------------------------------------------------------------ claims of Part II

\* The resource Refs of a cache entry: one per slice.
Refs(e) == {sl.idx : sl \in e.slices}

\* The step is a pass of Reconcile.
ReconcileStep == rLast' \in {"ok", "error"}

\* The step is a call of AddQueue.
AddQueueStep == rLast' \in {"addQueue", "panic"}

\* The syntheses that share the composition generation of synthesis u.
SameGeneration(u) == {v \in DOMAIN written : v # u /\ written[v].gen = written[u].gen}

\* C8 (as stated): every synthesis in the cache, that is every synthesis whose
\* work items were enqueued, was filled with exactly the set of slices that
\* synthesis produced: never fewer slices, never the slices of another
\* synthesis, also when the previous and the current synthesis observed the
\* same composition generation.
C8_CompleteSetOnly == \A e \in cache : e.slices = Produced(e.uuid)

\* The part of C8 that the code keeps: a synthesis that shares its composition
\* generation with no other synthesis is filled with exactly its own slices.
CompleteSetUnlessSameGeneration ==
    \A e \in cache : SameGeneration(e.uuid) = {} => e.slices = Produced(e.uuid)

\* populateCache defers on this synthesis: it is nil, has no
\* ResourceSliceCount, or the listed slices are not ResourceSliceCount many.
Defers(syn) ==
    \/ syn = NoSyn
    \/ syn.count = NilCount
    \/ Cardinality(ListSlices(syn.gen)) # syn.count

\* C9: whenever populateCache is called on a synthesis that is nil, has no
\* ResourceSliceCount, or whose listed slices are not ResourceSliceCount many,
\* it returns nil without calling Fill, with the cache and every queue as
\* they were; and a Reconcile pass in which both states defer enqueues
\* nothing and adds nothing to the cache.
C9_Defers ==
    /\ [](rComp.exists =>
            \A syn \in {rComp.prev, rComp.cur}, fail \in {"none", "fill"} :
                Defers(syn) =>
                    LET r == populateCache(CacheState, syn, fail) IN
                    /\ ~r.err
                    /\ r.out \in {"nil", "incomplete", "cached", "stale"}
                    /\ r.cache = cache
                    /\ r.queued = queued)
    /\ [][(ReconcileStep /\ rComp.exists /\ Defers(rComp.prev) /\ Defers(rComp.cur)) =>
            /\ queued' = queued
            /\ cache' = (IF rLast' = "ok" THEN Purge(cache, rComp) ELSE cache)]_vars

\* C9's case: a Reconcile pass has just returned without error on a complete
\* current synthesis that is not cached and whose listed slices are not
\* ResourceSliceCount many, and registered queues are there to be filled.
C9_Witness ==
    /\ rLast = "ok"
    /\ rComp.exists
    /\ rComp.cur # NoSyn
    /\ rComp.cur.count # NilCount
    /\ rComp.cur.count > 0
    /\ Cardinality(ListSlices(rComp.cur.gen)) # rComp.cur.count
    /\ ~HasSynthesis(cache, rComp.cur)
    /\ queues # <<>>

\* C10: once a Reconcile has started, AddQueue panics and the queues stay as
\* they were; before that, AddQueue registers the queue; a registered queue
\* stays registered, and every fill enqueues the filled synthesis's requests
\* on every registered queue.
C10_QueuesBeforeFirstReconcile ==
    [][/\ (started /\ AddQueueStep) => (panicked' /\ queues' = queues)
       /\ (~started /\ AddQueueStep) =>
              (~panicked' /\ Len(queues') = Len(queues) + 1)
       /\ started => queues' = queues
       /\ \A i \in DOMAIN queues : i \in DOMAIN queues' /\ queues'[i] = queues[i]
       /\ DOMAIN queued' = DOMAIN queues'
       /\ \A e \in cache' \ cache :
              \A i \in DOMAIN queues : Refs(e) \subseteq queued'[i]]_vars

\* C10's case: a queue registered before the first Reconcile has received the
\* requests of a fill, and a later AddQueue was rejected.
C10_Witness ==
    /\ panicked
    /\ started
    /\ queues # <<>>
    /\ \A i \in DOMAIN queues : queued[i] # {}

\* C11: whenever populateCache fills a synthesis, every request Fill returned
\* (one per resource Ref of the slices it was given) is added to every
\* registered queue, and when Fill returns an error the queues and the cache
\* stay as they were; in every Reconcile pass each queue gains exactly the
\* requests of the syntheses the pass filled.
C11_FillEnqueuesEverywhere ==
    /\ [](rComp.exists =>
            \A syn \in {rComp.prev, rComp.cur}, fail \in {"none", "fill"} :
                LET r == populateCache(CacheState, syn, fail) IN
                /\ DOMAIN r.queued = DOMAIN queues
                /\ r.out = "filled" =>
                       \E e \in r.cache \ cache :
                           /\ e.uuid = syn.uuid
                           /\ \A i \in DOMAIN queues :
                                  r.queued[i] = queued[i] \cup Refs(e)
                /\ r.out = "fillError" =>
                       (r.err /\ r.queued = queued /\ r.cache = cache))
    /\ [][ReconcileStep =>
            \A i \in DOMAIN queues :
                queued'[i] = queued[i] \cup UNION {Refs(e) : e \in cache' \ cache}]_vars

\* C11's case: a Reconcile pass has filled a synthesis that has resources, and
\* each of two registered queues holds every request of it.
C11_Witness ==
    /\ rLast = "ok"
    /\ Len(queues) >= 2
    /\ \E e \in cache :
           /\ Refs(e) # {}
           /\ \A i \in DOMAIN queues : queued[i] = Refs(e)

\* The synthesis UUIDs the composition references as previous or current.
ReferencedByStatus ==
    IF rComp.exists THEN {rComp.prev.uuid, rComp.cur.uuid} \ {0} ELSE {}

\* C12: right after a Reconcile pass that returned without error, every
\* cache entry belongs to a synthesis the composition references as previous
\* or current; if the composition does not exist, the cache holds no entry
\* of it.
C12_PurgedAfterReconcile ==
    rLast = "ok" => \A e \in cache : e.uuid \in ReferencedByStatus

\* C12's case: a pass returned without error after the composition was
\* removed; a synthesis of it had been filled (its requests are in the
\* queue), and the cache holds no entry any more.
C12_Witness ==
    /\ rLast = "ok"
    /\ ~rComp.exists
    /\ queues # <<>>
    /\ queued[1] # {}
    /\ cache = {}

\* A pass returned without error after the composition dropped the previous
\* state: the cache holds the current synthesis only.
PurgedDiscardedPrevious ==
    /\ rLast = "ok"
    /\ rComp.exists
    /\ rComp.prev = NoSyn
    /\ Len(written) = 2
    /\ \E e \in cache : e.uuid = rComp.cur.uuid

\* the states of the composition that the cache holds
CachedStates ==
    IF rComp.exists
    THEN {syn \in {rComp.prev, rComp.cur} \ {NoSyn} :
              syn.count # NilCount /\ HasSynthesis(cache, syn)}
    ELSE {}

\* C34: for a synthesis the cache holds, populateCache returns without
\* listing slices, without calling Fill and without enqueuing, whatever
\* call would fail; a Reconcile pass adds no second entry for it, and a
\* pass over a composition whose states are all cached enqueues nothing:
\* a synthesis is announced at most once while it stays cached.
C34_CachedOnce ==
    /\ [](\A syn \in CachedStates, fail \in {"none", "list", "fill"} :
            LET r == populateCache(CacheState, syn, fail) IN
            /\ r.out = "cached"
            /\ ~r.err
            /\ r.cache = cache
            /\ r.queued = queued)
    /\ [](\A e, d \in cache : e.uuid = d.uuid => e = d)
    /\ [][ReconcileStep =>
            /\ \A e \in cache' \ cache : \A d \in cache : d.uuid # e.uuid
            /\ \A syn \in CachedStates : \A e \in cache : e.uuid = syn.uuid => e \in cache'
            /\ (rComp.exists /\ \A syn \in {rComp.prev, rComp.cur} \ {NoSyn} : syn \in CachedStates)
                   => (queued' = queued /\ cache' \subseteq cache)]_vars

\* a pass has returned on a previous state that the cache holds and whose
\* slices the informer no longer lists: it was filled by an earlier pass,
\* and its requests are in the queue
C34_Witness ==
    /\ rLast = "ok"
    /\ rComp.exists
    /\ rComp.prev \in CachedStates
    /\ rComp.prev.count > 0
    /\ Cardinality(ListSlices(rComp.prev.gen)) # rComp.prev.count
    /\ queues # <<>>
    /\ \A i \in DOMAIN queues : queued[i] # {}

\* the synthesis u is the current one of the composition, is complete,
\* and the informer lists every slice it wrote
CurrentListed(u) ==
    /\ rComp.exists
    /\ rComp.cur.uuid = u
    /\ rComp.cur.count # NilCount
    /\ Produced(u) \subseteq informer

\* the previous synthesis observed the composition generation of the
\* current one, and slices of it are still listed
PreviousInTheWay ==
    /\ rComp.exists
    /\ rComp.prev # NoSyn
    /\ rComp.cur # NoSyn
    /\ rComp.prev.gen = rComp.cur.gen
    /\ \E sl \in informer : sl.uuid = rComp.prev.uuid

\* C38: a current synthesis that is complete and whose slices the
\* informer lists is eventually in the cache, for as long as it stays the
\* current synthesis and the process has not panicked, whatever the
\* previous synthesis is.
C38_FillIsLive ==
    \A u \in 1..MaxSyntheses :
        CurrentListed(u) ~> (~CurrentListed(u) \/ panicked \/ \E e \in cache : e.uuid = u)

\* C38 without its last case: the current synthesis is eventually in the
\* cache unless slices of a previous synthesis of its generation are
\* listed.
C38_FillIsLiveOtherwise ==
    \A u \in 1..MaxSyntheses :
        CurrentListed(u) ~>
            (~CurrentListed(u) \/ panicked \/ PreviousInTheWay \/ \E e \in cache : e.uuid = u)

\* What the code does: no pass fills the current synthesis while slices of
\* a previous synthesis of the same composition generation are listed with
\* all of its own.
C38_NoFillWhilePreviousListed ==
    [][(ReconcileStep /\ PreviousInTheWay /\ \E u \in 1..MaxSyntheses : CurrentListed(u))
          => \A e \in cache' \ cache : e.uuid # rComp.cur.uuid]_vars

\* a pass has returned without filling the current synthesis, which is
\* complete and listed, next to a listed previous synthesis of its
\* generation
C38_Stuck ==
    /\ rLast = "ok"
    /\ PreviousInTheWay
    /\ CurrentListed(rComp.cur.uuid)
    /\ rComp.cur.count > 0
    /\ ~HasSynthesis(cache, rComp.cur)

\* ------------------------------------------------------------- Part III
\* The slice controller: it watches the deletion of resource slices and
\* forces a resynthesis when a slice the current synthesis references is gone.
\* The composition's status is [pending, cur, prev, revisions]; a synthesis
\* of it is NoSyn or [uuid, synthesized, refs], refs being slice names.  A
\* slice is [name, owned]: owned slices have the composition as controller.

\* the composition is synthesized up to MaxResyntheses times
MaxResyntheses == 3

\* the name of the slice that no synthesis wrote
ForeignSlice == 0

SliceNames == {sl.name : sl \in slStore}

\* The slices of the current synthesis that are not in the API server.
MissingSlices ==
    IF slComp.exists /\ slComp.cur # NoSyn
    THEN slComp.cur.refs \ SliceNames
    ELSE {}

\* The composition is not to be resynthesized now: nothing was synthesized
\* yet, a synthesis is in flight, or the composition is being deleted.
NotEligibleForResynthesis(c) ==
    IF c.cur = NoSyn THEN TRUE ELSE ~c.cur.synthesized \/ c.deleting

\* Mutant: the status is written back without the signal.
SetPendingResynthesis_Skipped(c) == c

\* Mutant: the status update also drops the previous synthesis.
SetPendingResynthesis_DropsPrevious(c) == [c EXCEPT !.pending = TRUE, !.prev = NoSyn]

\* comp.Status.PendingResynthesis = now, written by one status update.
SetPendingResynthesis(c) == [c EXCEPT !.pending = TRUE]

\* One pass of the slice controller over the composition; fail names the
\* API call that fails in this pass, if it is reached.
sliceReconcile(c, fail) ==
    IF ~c.exists \/ fail = "getComposition"
    THEN [comp |-> c, err |-> TRUE, writes |-> <<>>]
    ELSE IF ~slSynExists
    THEN [comp |-> c, err |-> FALSE, writes |-> <<>>]
    ELSE IF fail = "getSynthesizer"
    THEN [comp |-> c, err |-> TRUE, writes |-> <<>>]
    ELSE IF NotEligibleForResynthesis(c)
    THEN [comp |-> c, err |-> FALSE, writes |-> <<>>]
    ELSE IF c.cur.refs = {}
    THEN [comp |-> c, err |-> FALSE, writes |-> <<>>]
    ELSE IF fail = "getSlice"
    THEN [comp |-> c, err |-> TRUE, writes |-> <<>>]
    ELSE IF c.cur.refs \ SliceNames = {}
    THEN [comp |-> c, err |-> FALSE, writes |-> <<>>]
    ELSE IF fail = "update"
    THEN [comp |-> c, err |-> TRUE, writes |-> <<"composition/status">>]
    ELSE [comp |-> SetPendingResynthesis(c), err |-> FALSE,
          writes |-> <<"composition/status">>]

SliceFailures == {"none", "getComposition", "getSynthesizer", "getSlice", "update"}

\* The work queue hands the composition to the controller; a failed pass
\* is queued again.
SliceReconcile(fail) ==
    /\ slQueue
    /\ LET r == sliceReconcile(slComp, fail) IN
       /\ slComp' = r.comp
       /\ slQueue' = r.err
       /\ slPass' = [step |-> IF r.err THEN "error" ELSE "ok", writes |-> r.writes]
    /\ UNCHANGED <<slSynExists, slStore, slNext, besidesSlice>>

\* Mutant: every deleted slice queues the composition.
sliceDeleted_AnySlice(sl) == TRUE

\* The delete handler of the slice informer: only a slice with a controller
\* owner queues that owner.
sliceDeleted(sl) == sl.owned

\* environment: a slice is deleted (by a user or by the garbage collector).
DeleteSlice ==
    \E sl \in slStore :
        /\ slStore' = slStore \ {sl}
        /\ slQueue' = (slQueue \/ sliceDeleted(sl))
        /\ slPass' = [step |-> "env", writes |-> <<>>]
        /\ UNCHANGED <<slComp, slSynExists, slNext, besidesSlice>>

\* environment: somebody creates a slice no composition owns.
CreateForeignSlice ==
    /\ ForeignSlice \notin SliceNames
    /\ slStore' = slStore \cup {[name |-> ForeignSlice, owned |-> FALSE]}
    /\ slPass' = [step |-> "env", writes |-> <<>>]
    /\ UNCHANGED <<slComp, slSynExists, slQueue, slNext, besidesSlice>>

\* The composition needs synthesis: it has none, or the signal is set.
SliceNeedsSynthesis == IF slComp.cur = NoSyn THEN TRUE ELSE slComp.pending

\* environment: the synthesis controller rotates the syntheses.
SliceRotate ==
    /\ slComp.exists /\ ~slComp.deleting /\ slSynExists
    /\ SliceNeedsSynthesis
    /\ IF slComp.cur = NoSyn THEN TRUE ELSE slComp.cur.synthesized
    /\ slNext <= MaxResyntheses
    /\ slComp' = [slComp EXCEPT
                    !.prev = slComp.cur,
                    !.cur = [uuid |-> slNext, synthesized |-> FALSE, refs |-> {}]]
    /\ slNext' = slNext + 1
    /\ slPass' = [step |-> "env", writes |-> <<>>]
    /\ UNCHANGED <<slSynExists, slStore, slQueue, besidesSlice>>

\* environment: the worker writes the slice of the synthesis in flight and
\* the synthesis completes.
SliceSynthesisCompletes ==
    /\ slComp.exists /\ slComp.cur # NoSyn /\ ~slComp.cur.synthesized
    /\ slStore' = slStore \cup {[name |-> slComp.cur.uuid, owned |-> TRUE]}
    /\ slComp' = [slComp EXCEPT !.cur.synthesized = TRUE,
                                !.cur.refs = {slComp.cur.uuid}]
    /\ slPass' = [step |-> "env", writes |-> <<>>]
    /\ UNCHANGED <<slSynExists, slQueue, slNext, besidesSlice>>

\* environment: the composition's inputs change.
SliceInputsChange ==
    /\ slComp.exists /\ slComp.revisions = 0
    /\ slComp' = [slComp EXCEPT !.revisions = 1]
    /\ slPass' = [step |-> "env", writes |-> <<>>]
    /\ UNCHANGED <<slSynExists, slStore, slQueue, slNext, besidesSlice>>

\* environment: the composition is deleted, and later removed.
SliceCompositionDeleted ==
    /\ slComp.exists
    /\ slComp' = IF slComp.deleting THEN [exists |-> FALSE]
                 ELSE [slComp EXCEPT !.deleting = TRUE]
    /\ slPass' = [step |-> "env", writes |-> <<>>]
    /\ UNCHANGED <<slSynExists, slStore, slQueue, slNext, besidesSlice>>

\* environment: the synthesizer is deleted.
SliceSynthesizerDeleted ==
    /\ slSynExists
    /\ slSynExists' = FALSE
    /\ slPass' = [step |-> "env", writes |-> <<>>]
    /\ UNCHANGED <<slComp, slStore, slQueue, slNext, besidesSlice>>

SliceInit ==
    /\ LifecycleIdle
    /\ AggregationIdle
    /\ WritersIdle
    /\ ReconIdle
    /\ DeletedIdle
    /\ CallIdle
    /\ SymphonyIdle
    /\ MergeIdle
    /\ slComp = [exists |-> TRUE, deleting |-> FALSE, pending |-> FALSE,
                 cur |-> NoSyn, prev |-> NoSyn, revisions |-> 0]
    /\ slSynExists = TRUE
    /\ slStore = {}
    /\ slQueue = FALSE
    /\ slNext = 1
    /\ slPass = [step |-> "init", writes |-> <<>>]

SliceNext ==
    \/ \E fail \in SliceFailures : SliceReconcile(fail)
    \/ DeleteSlice
    \/ CreateForeignSlice
    \/ SliceRotate
    \/ SliceSynthesisCompletes
    \/ SliceInputsChange
    \/ SliceCompositionDeleted
    \/ SliceSynthesizerDeleted

SpecSlice == SliceInit /\ [][SliceNext]_vars

\* A queued request is served, and a pass eventually runs without an API
\* failure; the synthesis controller and the worker make progress.
SpecSliceFair ==
    /\ SpecSlice
    /\ WF_vars(SliceReconcile("none"))
    /\ WF_vars(SliceRotate)
    /\ WF_vars(SliceSynthesisCompletes)

\* The slice controller may act on the composition.
SliceEligible ==
    IF slComp.exists THEN slSynExists /\ ~NotEligibleForResynthesis(slComp) ELSE FALSE

\* Nothing will synthesize the composition again: it or its synthesizer is
\* gone or going.
SliceAbandoned == IF slComp.exists THEN slComp.deleting \/ ~slSynExists ELSE TRUE

\* PendingResynthesis is set on the composition.
PendingResynthesis == IF slComp.exists THEN slComp.pending ELSE FALSE

\* The current synthesis is complete and all its slices exist.
SlicesInPlace ==
    IF slComp.exists /\ slComp.cur # NoSyn
    THEN slComp.cur.synthesized /\ MissingSlices = {}
    ELSE FALSE

\* A pass of the slice controller that returned no error.
SlicePassOk == slPass'.step = "ok"

SlicePass == slPass'.step \in {"ok", "error"}

\* C14: PendingResynthesis of a composition changes only in a pass of the
\* slice controller that issued its status update, and that pass leaves
\* every other field of the status (the current and the previous synthesis,
\* the input revisions) as it read them.
C14_OnlyPendingResynthesisWritten ==
    [][/\ (slComp.exists /\ slComp'.exists /\ slComp'.pending # slComp.pending)
              => (SlicePass /\ slPass'.writes = <<"composition/status">>)
       /\ SlicePass => (slComp' = slComp \/ slComp' = [slComp EXCEPT !.pending = TRUE])]_vars

C14_Witness ==
    /\ slPass = [step |-> "ok", writes |-> <<"composition/status">>]
    /\ PendingResynthesis
    /\ slComp.prev # NoSyn
    /\ slComp.cur.synthesized
    /\ slComp.revisions = 1

\* The pass returns after reading the synthesizer or after asking whether
\* the composition is eligible for resynthesis.
SliceSkipped(fail) ==
    \/ ~slSynExists
    \/ fail # "getSynthesizer" /\ NotEligibleForResynthesis(slComp)

C39_MissingCompositionIgnored ==
    ~slComp.exists =>
        LET r == sliceReconcile(slComp, "none") IN
        /\ ~r.err
        /\ r.writes = <<>>
        /\ r.comp = slComp

\* What the code does: the pass writes nothing, returns the NotFound of the
\* composition as an error, and the request is queued again.
C39_MissingCompositionIsAnError ==
    [][(SlicePass /\ ~slComp.exists)
          => /\ slPass' = [step |-> "error", writes |-> <<>>]
             /\ slQueue'
             /\ slComp' = slComp]_vars

\* the composition is gone, a slice it owned has been deleted since, and
\* the pass for it has returned an error and is queued again
C39_Retried ==
    /\ ~slComp.exists
    /\ slPass = [step |-> "error", writes |-> <<>>]
    /\ slQueue
    /\ slStore = {}
    /\ slNext > 1

\* ------------------------------------------------------------- Part IV
\* The symphony replication controller: it keeps one composition per
\* variation of a symphony.  A symphony is [exists, deleting, finalizer,
\* variations, cfg, annotations, env, status]: variations is the set of
\* synthesizer names of its variations, cfg stands for its bindings and the
\* variations' labels, annotations for the variations' annotations, env for
\* its synthesis environment, status is Status.Synthesizers.  A composition
\* is [name, synth, cfg, annotations, env,
\* deleting]; names are given in creation order.  The controller reads the
\* symphony and the compositions from its informer, which may lag behind.

\* the controller creates up to MaxCompositions compositions
MaxCompositions == 2

\* the synthesizers a variation may name
SynthNames == {1, 2}

\* the variations the user gives the symphony
VariationSets == {{1}, {1, 2}}

\* the empty name, which sorts before every synthesizer name
NoName == 0

RECURSIVE sortSynthesizerRefs(_)
\* The refs sorted by name.
sortSynthesizerRefs(refs) ==
    IF refs = <<>> THEN <<>>
    ELSE LET rest == sortSynthesizerRefs(Tail(refs))
             x == Head(refs)
         IN SelectSeq(rest, LAMBDA y : y <= x) \o <<x>> \o SelectSeq(rest, LAMBDA y : y > x)

RECURSIVE Items(_)
\* The compositions of a list, one after the other.
Items(l) ==
    IF l = {} THEN <<>>
    ELSE LET c == CHOOSE c \in l : \A d \in l : c.name <= d.name
         IN <<c>> \o Items(l \ {c})

\* The synthesizer refs syncStatus computes from the listed compositions.
StatusRefs(l) == sortSynthesizerRefs([i \in 1..Cardinality(l) |-> Items(l)[i].synth])

\* Mutant: the deletion of the symphony is left out of the first loop.
Unwanted_RemovedOnly(v, l) ==
    {c \in l : ~c.deleting /\ c.synth \notin v.variations}

\* reconcileReverse, first loop: the compositions to delete.
Unwanted(v, l) ==
    {c \in l : ~c.deleting /\ (c.synth \notin v.variations \/ v.deleting)}

\* reconcileReverse, second loop: the synthesizers with several compositions.
Duplicated(l) == {c.synth : c \in {c \in l : \E d \in l : d.synth = c.synth /\ d.name # c.name}}

\* Mutant: the newest composition of the synthesizer.
FirstByCreation_Newest(l, sy) == CHOOSE c \in l : c.synth = sy /\ \A d \in l : d.synth = sy => d.name <= c.name

\* comps[0] after sorting the compositions of a synthesizer by creation time.
FirstByCreation(l, sy) == CHOOSE c \in l : c.synth = sy /\ \A d \in l : d.synth = sy => c.name <= d.name

\* Mutant: reconcileForward finds every variation in order.
Unsettled_None(v, l) == {}

\* reconcileForward: the variations that have no composition, or one whose
\* spec or labels differ from the symphony's.
Unsettled(v, l) ==
    {sy \in v.variations : \A c \in l : c.synth = sy => c.cfg # v.cfg}

\* A write to the symphony: the API server refuses an object that does not
\* carry the latest resource version; a deleting symphony goes away with
\* its finalizer.
symphonyWrite(new, verb, failing) ==
    IF failing \/ ~symph.exists \/ ~symphFresh
    THEN [symph |-> symph, comps |-> comps, err |-> TRUE, writes |-> <<>>]
    ELSE [symph |-> IF new.deleting /\ ~new.finalizer THEN NoSymphony ELSE new,
          comps |-> comps, err |-> FALSE, writes |-> <<verb>>]

\* Mutant: the deletion is followed by an update of the symphony status.
compositionDelete_ThenStatus(c, failing) ==
    [symph |-> symph, comps |-> comps, err |-> failing,
     writes |-> IF failing THEN <<>> ELSE <<"composition/delete", "symphony/status">>]

\* client.Delete of a composition.
compositionDelete(c, failing) ==
    IF failing \/ ~\E d \in comps : d.name = c.name
    THEN [symph |-> symph, comps |-> comps, err |-> TRUE, writes |-> <<>>]
    ELSE [symph |-> symph,
          comps |-> {IF d.name = c.name THEN [d EXCEPT !.deleting = TRUE] ELSE d : d \in comps},
          err |-> FALSE, writes |-> <<"composition/delete">>]

\* client.Update of a composition read from the informer.
compositionUpdate(c, new, failing) ==
    IF failing \/ c \notin comps
    THEN [symph |-> symph, comps |-> comps, err |-> TRUE, writes |-> <<>>]
    ELSE [symph |-> symph, comps |-> (comps \ {c}) \cup {new},
          err |-> FALSE, writes |-> <<"composition/update">>]

\* the annotations and the synthesis environment of a composition that
\* was given none
NotCopied == 0

\* reconcileForward: the composition of a variation, with the symphony's
\* bindings and the variation's synthesizer and labels.
newComposition(v, sy) ==
    [name |-> nextComp, synth |-> sy, cfg |-> v.cfg, annotations |-> NotCopied,
     env |-> NotCopied, deleting |-> FALSE]

\* Mutant: the composition is created without the status update before it.
compositionCreate_Alone(v, sy, fail) ==
    IF fail = "first"
    THEN [symph |-> symph, comps |-> comps, err |-> TRUE, writes |-> <<>>]
    ELSE [symph |-> symph,
          comps |-> comps \cup {newComposition(v, sy)},
          err |-> FALSE, writes |-> <<"composition/create">>]

\* reconcileForward for a variation without composition: the symphony status
\* is updated with the name of the new composition, which is still empty,
\* and then the composition is created.
compositionCreate(v, sy, fail) ==
    LET st == symphonyWrite([symph EXCEPT !.status = sortSynthesizerRefs(Append(v.status, NoName))],
                            "symphony/status", fail = "first")
    IN IF st.err THEN st
       ELSE IF fail = "second" THEN [st EXCEPT !.err = TRUE]
       ELSE [st EXCEPT
               !.comps = comps \cup {newComposition(v, sy)},
               !.writes = Append(st.writes, "composition/create")]

\* Mutant: reconcileForward also runs for a deleting symphony.
symphonyReconcile_ForwardWhileDeleting(v, l, fail, pick) ==
    LET idle == [symph |-> symph, comps |-> comps, err |-> FALSE, writes |-> <<>>] IN
    IF ~v.exists THEN idle
    ELSE IF fail = "list" THEN [idle EXCEPT !.err = TRUE]
    ELSE IF StatusRefs(l) # v.status
    THEN symphonyWrite([symph EXCEPT !.status = StatusRefs(l)], "symphony/status", fail = "first")
    ELSE IF ~v.finalizer
    THEN symphonyWrite([symph EXCEPT !.finalizer = TRUE], "symphony", fail = "first")
    ELSE IF Unwanted(v, l) # {}
    THEN compositionDelete(IF pick \in Unwanted(v, l) THEN pick ELSE CHOOSE c \in Unwanted(v, l) : TRUE,
                           fail = "first")
    ELSE IF Duplicated(l) # {}
    THEN compositionDelete(FirstByCreation(l, IF pick.synth \in Duplicated(l) THEN pick.synth
                                              ELSE CHOOSE sy \in Duplicated(l) : TRUE),
                           fail = "first")
    ELSE IF Unsettled(v, l) # {}
    THEN LET sy == Min(Unsettled(v, l)) IN
         IF \E c \in l : c.synth = sy
         THEN LET c == CHOOSE c \in l : c.synth = sy
              IN compositionUpdate(c, [c EXCEPT !.cfg = v.cfg], fail = "first")
         ELSE compositionCreate(v, sy, fail)
    ELSE IF v.deleting /\ l = {} /\ v.finalizer
    THEN symphonyWrite([symph EXCEPT !.finalizer = FALSE], "symphony", fail = "first")
    ELSE idle

\* One pass of the controller over the symphony v and the compositions l it
\* reads from the informer; fail names the API call that fails in this
\* pass, pick the composition the loops of reconcileReverse reach first.
symphonyReconcile(v, l, fail, pick) ==
    LET idle == [symph |-> symph, comps |-> comps, err |-> FALSE, writes |-> <<>>] IN
    IF ~v.exists THEN idle
    ELSE IF fail = "list" THEN [idle EXCEPT !.err = TRUE]
    ELSE IF StatusRefs(l) # v.status
    THEN symphonyWrite([symph EXCEPT !.status = StatusRefs(l)], "symphony/status", fail = "first")
    ELSE IF ~v.finalizer
    THEN symphonyWrite([symph EXCEPT !.finalizer = TRUE], "symphony", fail = "first")
    ELSE IF Unwanted(v, l) # {}
    THEN compositionDelete(IF pick \in Unwanted(v, l) THEN pick ELSE CHOOSE c \in Unwanted(v, l) : TRUE,
                           fail = "first")
    ELSE IF Duplicated(l) # {}
    THEN compositionDelete(FirstByCreation(l, IF pick.synth \in Duplicated(l) THEN pick.synth
                                              ELSE CHOOSE sy \in Duplicated(l) : TRUE),
                           fail = "first")
    ELSE IF ~v.deleting /\ Unsettled(v, l) # {}
    THEN LET sy == Min(Unsettled(v, l)) IN
         IF \E c \in l : c.synth = sy
         THEN LET c == CHOOSE c \in l : c.synth = sy
              IN compositionUpdate(c, [c EXCEPT !.cfg = v.cfg], fail = "first")
         ELSE compositionCreate(v, sy, fail)
    ELSE IF v.deleting /\ l = {} /\ v.finalizer
    THEN symphonyWrite([symph EXCEPT !.finalizer = FALSE], "symphony", fail = "first")
    ELSE idle

SymphonyFailures == {"none", "list", "first", "second"}

SymphonyReconcile(fail) ==
    \E pick \in IF compsView = {} THEN {[name |-> 0, synth |-> 0]} ELSE compsView :
        LET r == symphonyReconcile(symphView, compsView, fail, pick) IN
        /\ Cardinality(r.comps) > Cardinality(comps) => nextComp <= MaxCompositions
        /\ symph' = r.symph
        /\ comps' = r.comps
        /\ symphFresh' = (symphFresh /\ symph' = symph)
        /\ nextComp' = IF Cardinality(r.comps) > Cardinality(comps) THEN nextComp + 1 ELSE nextComp
        /\ symPass' = [step |-> IF r.err THEN "error" ELSE "ok", writes |-> r.writes]
        /\ UNCHANGED <<symphView, compsView, besidesSymphony>>

\* environment: the informer catches up with the symphony.
SymphonySync ==
    /\ ~symphFresh
    /\ symphView' = symph
    /\ symphFresh' = TRUE
    /\ symPass' = [step |-> "env", writes |-> <<>>]
    /\ UNCHANGED <<symph, comps, compsView, nextComp, besidesSymphony>>

\* environment: the informer catches up with the compositions.
CompositionsSync ==
    /\ compsView # comps
    /\ compsView' = comps
    /\ symPass' = [step |-> "env", writes |-> <<>>]
    /\ UNCHANGED <<symph, comps, symphView, symphFresh, nextComp, besidesSymphony>>

\* environment: the user changes the variations of the symphony.
ChangeVariations ==
    \E V \in VariationSets :
        /\ symph.exists /\ ~symph.deleting /\ V # symph.variations
        /\ symph' = [symph EXCEPT !.variations = V]
        /\ symphFresh' = FALSE
        /\ symPass' = [step |-> "env", writes |-> <<>>]
        /\ UNCHANGED <<comps, symphView, compsView, nextComp, besidesSymphony>>

\* environment: the user changes the bindings or the labels of the variations.
ChangeBindings ==
    /\ symph.exists /\ ~symph.deleting /\ symph.cfg = 0
    /\ symph' = [symph EXCEPT !.cfg = 1]
    /\ symphFresh' = FALSE
    /\ symPass' = [step |-> "env", writes |-> <<>>]
    /\ UNCHANGED <<comps, symphView, compsView, nextComp, besidesSymphony>>

\* environment: the user deletes the symphony.
DeleteSymphony ==
    /\ symph.exists /\ ~symph.deleting
    /\ symph' = IF symph.finalizer THEN [symph EXCEPT !.deleting = TRUE] ELSE NoSymphony
    /\ symphFresh' = FALSE
    /\ symPass' = [step |-> "env", writes |-> <<>>]
    /\ UNCHANGED <<comps, symphView, compsView, nextComp, besidesSymphony>>

\* environment: a deleting composition releases its finalizer and goes away.
CompositionRemoved ==
    \E c \in comps :
        /\ c.deleting
        /\ comps' = comps \ {c}
        /\ symPass' = [step |-> "env", writes |-> <<>>]
        /\ UNCHANGED <<symph, symphView, symphFresh, compsView, nextComp, besidesSymphony>>

SymphonyInit ==
    /\ LifecycleIdle
    /\ AggregationIdle
    /\ WritersIdle
    /\ ReconIdle
    /\ DeletedIdle
    /\ CallIdle
    /\ SliceIdle
    /\ MergeIdle
    /\ symph = [exists |-> TRUE, deleting |-> FALSE, finalizer |-> FALSE,
                variations |-> {1}, cfg |-> 0, annotations |-> 1, env |-> 1,
                status |-> <<>>]
    /\ comps = {}
    /\ symphView = symph
    /\ symphFresh = TRUE
    /\ compsView = {}
    /\ nextComp = 1
    /\ symPass = [step |-> "init", writes |-> <<>>]

SymphonyNext ==
    \/ \E fail \in SymphonyFailures : SymphonyReconcile(fail)
    \/ SymphonySync
    \/ CompositionsSync
    \/ ChangeVariations
    \/ ChangeBindings
    \/ DeleteSymphony
    \/ CompositionRemoved

SpecSymphony == SymphonyInit /\ [][SymphonyNext]_vars

\* A pass in which no API call fails for a reason of the API server's, run
\* once the informer has caught up.
SymphonyReconcileCaughtUp ==
    symphFresh /\ compsView = comps /\ SymphonyReconcile("none")

\* The controller is started for every event, an error is retried, and the
\* API server does not fail for ever; the informer catches up; a deleting
\* composition goes away.
SpecSymphonyFair ==
    /\ SpecSymphony
    /\ SF_vars(SymphonyReconcileCaughtUp)
    /\ WF_vars(SymphonySync)
    /\ WF_vars(CompositionsSync)
    /\ WF_vars(CompositionRemoved)

\* The controllers of Parts III and IV, each on its own objects.
ControllersInit == SliceInit \/ SymphonyInit

ControllersNext ==
    \/ slPass.step # "idle" /\ SliceNext
    \/ symPass.step # "idle" /\ SymphonyNext

SpecControllers == ControllersInit /\ [][ControllersNext]_vars

CreatePass == <<"symphony/status", "composition/create">>

CompositionsOf(sy) == {c \in comps : c.synth = sy}

\* one composition for the synthesizer of each variation, and no other
OnePerVariation ==
    /\ \A sy \in symph.variations : Cardinality(CompositionsOf(sy)) = 1
    /\ \A c \in comps : c.synth \in symph.variations

\* the symphony exists and is not deleting
LiveSymphony == IF symph.exists THEN ~symph.deleting ELSE FALSE

\* the model creates no further composition
NoCompositionLeft == nextComp > MaxCompositions

\* a pass in which an API call fails for a reason of the API server's
ServerFailure == \E fail \in SymphonyFailures \ {"none"} : SymphonyReconcile(fail)

DuplicateCleanup ==
    /\ symphView.exists
    /\ StatusRefs(compsView) = symphView.status
    /\ symphView.finalizer
    /\ Unwanted(symphView, compsView) = {}
    /\ Duplicated(compsView) # {}
    /\ symPass'.writes = <<"composition/delete">>

\* the compositions the step marks as deleting
Deletes == {c \in comps : ~c.deleting /\ [c EXCEPT !.deleting = TRUE] \in comps'}

\* C25: the duplicate cleanup deletes a composition that is newer than
\* another listed composition of its synthesizer: the oldest is never the
\* one deleted as a duplicate.
C25_OldestKept ==
    [][DuplicateCleanup =>
          \A c \in Deletes : \E d \in compsView : d.synth = c.synth /\ d.name < c.name]_vars

\* What the code does: the composition deleted as a duplicate is the oldest
\* listed composition of its synthesizer.
C25_OldestDeleted ==
    [][DuplicateCleanup =>
          \A c \in Deletes : \A d \in compsView : d.synth = c.synth => c.name <= d.name]_vars

\* a duplicate has been deleted while a newer composition of the
\* synthesizer stays
C25_DuplicateDeleted ==
    /\ symPass = [step |-> "ok", writes |-> <<"composition/delete">>]
    /\ \E c, d \in comps : c.synth = d.synth /\ c.name < d.name /\ c.deleting /\ ~d.deleting
    /\ \A c \in comps : c.synth \in symph.variations
    /\ LiveSymphony

\* the compositions the step creates
Creates == {c \in comps' : \A d \in comps : d.name # c.name}

\* C26: a composition the controller creates carries the symphony's
\* bindings, the variation's labels and annotations and the symphony's
\* synthesis environment, as the controller read them.
C26_CreatedAsTheSymphonySays ==
    [][\A c \in Creates :
          /\ c.cfg = symphView.cfg
          /\ c.annotations = symphView.annotations
          /\ c.env = symphView.env]_vars

\* What the code does: the composition gets the bindings and the labels,
\* and neither annotations nor a synthesis environment.
C26_BindingsAndLabelsOnly ==
    [][\A c \in Creates :
          /\ c.cfg = symphView.cfg
          /\ c.annotations = NotCopied
          /\ c.env = NotCopied]_vars

\* a composition has been created after the bindings changed
C26_Created ==
    /\ symPass = [step |-> "ok", writes |-> CreatePass]
    /\ \E c \in comps : c.cfg = 1

\* the pass removed the finalizer of the deleting symphony
FinalizerRemoved ==
    /\ symph.exists
    /\ symph.finalizer
    /\ symPass'.writes = <<"symphony">>
    /\ IF symph'.exists THEN ~symph'.finalizer ELSE TRUE

\* C27: the finalizer of a deleting symphony is removed only in a pass in
\* which no composition of the symphony exists, so that once the symphony
\* is gone no composition of it remains.
C27_NoCompositionOutlivesTheSymphony ==
    /\ [][FinalizerRemoved => comps = {}]_vars
    /\ [](~symph.exists => comps = {})

\* What the code does: the finalizer is removed only in a pass whose list
\* of compositions, read from the informer, is empty; and no composition is
\* created once the symphony is gone.
C27_NoCompositionListed ==
    /\ [][FinalizerRemoved => compsView = {}]_vars
    /\ [][~symph.exists => Creates = {}]_vars

\* the symphony is gone and a composition of it is left
C27_Outlived == ~symph.exists /\ comps # {} /\ symPass.writes = <<"symphony">>

\* C31: once a composition exists for a synthesizer, no pass creates a
\* second one for it, whatever the pass read from its informer, because
\* the symphony status update before the create fails; and a pass whose
\* status update fails creates no composition.
C31_NoSecondComposition ==
    /\ [][\A c \in Creates : CompositionsOf(c.synth) = {}]_vars
    /\ [][Creates # {} => symPass' = [step |-> "ok", writes |-> CreatePass]]_vars

\* What the code does: a pass that read a symphony older than the stored
\* one creates nothing, and a composition is created only after the status
\* update of its pass went through; a pass that read the stored symphony
\* and a list of compositions without the one created does create a second.
C31_StaleSymphonyCreatesNothing ==
    /\ [][~symphFresh => Creates = {}]_vars
    /\ [][Creates # {} => symPass' = [step |-> "ok", writes |-> CreatePass]]_vars

\* a second composition of a synthesizer has been created
C31_SecondCreated ==
    /\ symPass = [step |-> "ok", writes |-> CreatePass]
    /\ \E c, d \in comps : c.synth = d.synth /\ c.name < d.name /\ ~c.deleting /\ d \notin compsView

\* The pass came as far as reconcileReverse.
ReverseReached ==
    /\ symPass'.step \in {"ok", "error"}
    /\ symphView.exists
    /\ StatusRefs(compsView) = symphView.status
    /\ symphView.finalizer

\* the listed compositions that are not deleting and whose synthesizer
\* is no variation of the symphony, or whose symphony is deleting
ToBeRemoved ==
    {c \in compsView :
        /\ ~c.deleting
        /\ c.synth \notin symphView.variations \/ symphView.deleting}

\* C32: the first loop of reconcileReverse deletes a composition iff the
\* composition is not deleting and its synthesizer is not among the
\* variations or the symphony is deleting: when the list has such a
\* composition, the pass deletes one of them and ends with that as its only
\* write, before duplicate cleanup and forward reconciliation; when it has
\* none, a composition is deleted only by the duplicate cleanup.
C32_ReverseDeletion ==
    /\ [][(ReverseReached /\ ToBeRemoved # {} /\ symPass'.step = "ok")
            => /\ symPass'.writes = <<"composition/delete">>
               /\ \E c \in ToBeRemoved :
                      comps' = {IF d.name = c.name THEN [d EXCEPT !.deleting = TRUE] ELSE d : d \in comps}
               /\ Cardinality(Deletes) <= 1
               /\ symph' = symph]_vars
    /\ [][(ReverseReached /\ ToBeRemoved = {} /\ Deletes # {}) => DuplicateCleanup]_vars
    /\ [][(ReverseReached /\ ToBeRemoved # {} /\ symPass'.step = "error")
            => (symPass'.writes = <<>> /\ comps' = comps /\ symph' = symph)]_vars

\* the composition of a synthesizer taken out of the variations has been
\* deleted, the composition of the other variation stays
C32_Witness ==
    /\ symPass = [step |-> "ok", writes |-> <<"composition/delete">>]
    /\ LiveSymphony
    /\ \E c \in comps : c.deleting /\ c.synth \notin symph.variations
    /\ \E c \in comps : ~c.deleting /\ c.synth \in symph.variations

\* A step of the replication controller.
SymphonyPass == symPass'.step \in {"ok", "error"}

\* the writes of a pass that syncs the status, deletes a composition or
\* removes the finalizer, or writes nothing
DeletionWrites ==
    \/ symPass'.writes \in {<<>>, <<"composition/delete">>, <<"symphony/status">>}
    \/ symPass'.writes = <<"symphony">> /\ symph.finalizer /\ ~symph'.exists

\* C36 as stated: while the symphony has a deletion timestamp, a pass
\* creates no composition and updates none; it writes nothing but a
\* composition deletion, a status sync or the finalizer removal.
C36_Original ==
    [][(SymphonyPass /\ symph.exists /\ symph.deleting)
          => (Creates = {} /\ DeletionWrites)]_vars

\* C36: while the symphony has a deletion timestamp no pass creates a
\* composition; a pass that read the symphony with its deletion timestamp
\* updates no composition either and writes nothing but a composition
\* deletion, a status sync or the finalizer removal; a pass that read the
\* symphony from before its deletion writes nothing but a composition
\* deletion or the update of a composition.
C36_Amended ==
    /\ [][(SymphonyPass /\ symph.exists /\ symph.deleting) => Creates = {}]_vars
    /\ [][(SymphonyPass /\ symphView.exists /\ symphView.deleting)
            => (Creates = {} /\ DeletionWrites)]_vars
    /\ [][(SymphonyPass /\ symph.exists /\ symph.deleting /\ ~symphView.deleting)
            => symPass'.writes \in {<<>>, <<"composition/delete">>, <<"composition/update">>}]_vars

\* a pass that read the deleting symphony has deleted the composition of
\* one of its variations
C36_Witness ==
    /\ symPass = [step |-> "ok", writes |-> <<"composition/delete">>]
    /\ symph.exists /\ symph.deleting
    /\ symphView.exists /\ symphView.deleting
    /\ \E c \in comps : c.deleting /\ c.synth \in symph.variations

\* The pass wrote Status.Synthesizers.
StatusWritten ==
    /\ SymphonyPass
    /\ symph'.exists
    /\ symph'.status # symph.status

\* the list is sorted by name
SortedRefs(refs) == \A i, j \in 1..Len(refs) : i < j => refs[i] <= refs[j]

\* the entries of a list of refs
RefNames(refs) == {refs[i] : i \in 1..Len(refs)}

\* C37: the Status.Synthesizers a pass writes is sorted by name, and every
\* entry is the synthesizer name of a composition of the symphony, listed
\* or stored, or of the composition the pass creates; no entry is without
\* a synthesizer's name.
C37_StatusNamesSynthesizers ==
    [][StatusWritten =>
          /\ SortedRefs(symph'.status)
          /\ RefNames(symph'.status) \subseteq
                 {c.synth : c \in compsView \cup comps \cup Creates}
          /\ NoName \notin RefNames(symph'.status)]_vars

\* What the code does: the written list is sorted, and every entry is the
\* synthesizer name of a listed composition or the empty name that
\* reconcileForward appends before it creates a composition.
C37_SortedListedOrEmpty ==
    [][StatusWritten =>
          /\ SortedRefs(symph'.status)
          /\ RefNames(symph'.status) \subseteq {c.synth : c \in compsView} \cup {NoName}
          /\ Creates # {} => NoName \in RefNames(symph'.status)
          /\ NoName \in RefNames(symph'.status) => StatusRefs(compsView) = symphView.status]_vars

\* the stored status holds the empty name next to a synthesizer, after
\* the pass that created the second composition
C37_EmptyNameStored ==
    /\ symPass = [step |-> "ok", writes |-> CreatePass]
    /\ symph.exists
    /\ symph.status = <<NoName, 1>>

\* ------------------------------------------------------------- Part V
\* Resource.Merge: the three-way merge of the resource (new), the resource
\* of the previous synthesis (old, or nil) and the live object (current).
\* An object is a function from field paths to values; a value is absent,
\* an int64 or a float64 (of integral value).  The fields are scalars.

\* manifests set their fields to values up to MaxValue
MaxValue == 2

Absent == [kind |-> "absent", n |-> 0]
Int64(n) == [kind |-> "int64", n |-> n]
Float64(n) == [kind |-> "float64", n |-> n]

\* the fields a manifest may set, and the fields of a live object
ManifestPaths == {"spec.a", "spec.replicas"}
LivePaths == ManifestPaths \cup {"spec.foreign", "status.availableReplicas", "metadata.resourceVersion"}

\* NewResource parses the manifest and prunes its status: the value of a
\* resource has int64 numbers and no field outside the manifest's.
ResourceValues ==
    {o \in [LivePaths -> {Absent} \cup {Int64(n) : n \in 1..MaxValue}] :
        \A p \in LivePaths \ ManifestPaths : o[p] = Absent}

NilResource == [nil |-> TRUE]
Resources == {[nil |-> FALSE, value |-> o] : o \in ResourceValues}

\* the values somebody else gives the status and the resource version
StatusValues == {Absent, Int64(2), Float64(2)}
ResourceVersions == {Int64(1), Int64(2)}

\* The live objects handed to Merge.
LiveObjects ==
    {o \in [LivePaths -> {Absent, Float64(2)} \cup {Int64(n) : n \in 1..MaxValue}] :
        /\ \A p \in ManifestPaths : o[p].kind # "float64"
        /\ o["spec.foreign"] \in {Absent, Int64(1)}
        /\ o["status.availableReplicas"] \in StatusValues
        /\ o["metadata.resourceVersion"] \in ResourceVersions}

\* what SchemaGetter.Get returns: a type, no type, or an error
SchemaResults == {"typed", "untyped", "error"}

\* MarshalJSON: a number is written as its digits, whatever its Go type.
MarshalJSON(o) ==
    [p \in LivePaths |-> IF o[p] = Absent THEN Absent ELSE [kind |-> "number", n |-> o[p].n]]

\* UnmarshalJSON: an integral number is read as int64.
UnmarshalJSON(js) ==
    [p \in LivePaths |-> IF js[p] = Absent THEN Absent ELSE Int64(js[p].n)]

NoChange == [kind |-> "nochange", n |-> 0]
Null == [kind |-> "null", n |-> 0]

\* jsonmergepatch.CreateThreeWayJSONMergePatch(original, modified, current):
\* the additions and changes from current to modified, and the deletions
\* from original to modified.
CreateThreeWayJSONMergePatch(original, modified, current) ==
    LET addAndChange == [p \in LivePaths |->
            IF modified[p] # Absent /\ modified[p] # current[p] THEN modified[p] ELSE NoChange]
        deletions == [p \in LivePaths |->
            IF original[p] # Absent /\ modified[p] = Absent THEN Null ELSE NoChange]
    IN [p \in LivePaths |-> IF addAndChange[p] # NoChange THEN addAndChange[p] ELSE deletions[p]]

\* jsonpatch.MergePatch(doc, patch)
MergePatch(doc, patch) ==
    [p \in LivePaths |->
        IF patch[p] = NoChange THEN doc[p]
        ELSE IF patch[p] = Null THEN Absent
        ELSE patch[p]]

EmptyJSON == [p \in LivePaths |-> Absent]

\* typedCurrent.Merge(typedNew): the fields new sets, onto current.
TypedMerge(current, new) ==
    [p \in LivePaths |-> IF new[p] # Absent THEN new[p] ELSE current[p]]

\* typedOld.Compare(typedNew).Removed: the fields of old that new lacks.
Removed(old, new) == {p \in LivePaths : old[p] # Absent /\ new[p] = Absent}

\* merged.RemoveItems(removed)
RemoveItems(o, removed) == [p \in LivePaths |-> IF p \in removed THEN Absent ELSE o[p]]

\* Compare(...).IsSame(): the typed values compare numbers by their value.
IsSame(a, b) ==
    \A p \in LivePaths : (a[p] = Absent) = (b[p] = Absent) /\ a[p].n = b[p].n

\* Mutant: a failed schema lookup is taken for an unknown type.
schemaLookup_ErrorIgnored(sg) ==
    [err |-> FALSE, typeref |-> sg = "typed"]

\* sg.Get(ctx, r.GVK)
schemaLookup(sg) ==
    [err |-> sg = "error", typeref |-> sg = "typed"]

\* Mutant: the merged object is returned without comparing it with current.
Unchanged_Never(current, patched) == FALSE

\* equality.Semantic.DeepEqual(current, patched)
Unchanged(current, patched) == current = patched

\* Mutant: nothing is pruned.
Pruned_Nothing(old, new) == {}

\* The fields to prune in the schema-aware path: none without old.
Pruned(old, new) == IF old.nil THEN {} ELSE Removed(old.value, new.value)

\* The schema-free path up to the parsed patched object.
mergeUntyped(new, old, current) ==
    LET currentJS == MarshalJSON(current)
        prevJS == IF old.nil THEN EmptyJSON ELSE MarshalJSON(old.value)
        expectedJS == MarshalJSON(new.value)
        patch == CreateThreeWayJSONMergePatch(prevJS, expectedJS, currentJS)
    IN UnmarshalJSON(MergePatch(currentJS, patch))

\* Mutant: the new state replaces the current one.
mergeTyped_Replace(new, old, current) == new.value

\* The schema-aware path up to the merged value.
mergeTyped(new, old, current) ==
    RemoveItems(TypedMerge(current, new.value), Pruned(old, new))

\* Resource.Merge
Merge(new, old, current, sg) ==
    LET schem == schemaLookup(sg) IN
    IF schem.err THEN [out |-> "error", typed |-> FALSE]
    ELSE IF ~schem.typeref
    THEN LET patched == mergeUntyped(new, old, current) IN
         IF Unchanged(current, patched) THEN [out |-> "skip", typed |-> FALSE]
         ELSE [out |-> "merged", typed |-> FALSE, obj |-> patched]
    ELSE LET merged == mergeTyped(new, old, current) IN
         IF IsSame(merged, current) THEN [out |-> "skip", typed |-> TRUE]
         ELSE [out |-> "merged", typed |-> TRUE, obj |-> merged]

NotCalled == [out |-> "none"]

MergeInit ==
    /\ LifecycleIdle
    /\ AggregationIdle
    /\ WritersIdle
    /\ ReconIdle
    /\ DeletedIdle
    /\ CallIdle
    /\ SliceIdle
    /\ SymphonyIdle
    /\ mInput \in [new : Resources, old : Resources \cup {NilResource},
                   current : LiveObjects, sg : SchemaResults]
    /\ mOutput = NotCalled
    /\ mConverged = FALSE

\* The reconciler calls Merge.
MergeCall ==
    /\ mOutput = NotCalled
    /\ mOutput' = Merge(mInput.new, mInput.old, mInput.current, mInput.sg)
    /\ UNCHANGED <<mInput, mConverged, besidesMerge>>

\* The reconciler writes the merged object; the API server stores its JSON.
WriteBack ==
    /\ mOutput.out = "merged"
    /\ mInput' = [mInput EXCEPT !.current = UnmarshalJSON(MarshalJSON(mOutput.obj))]
    /\ mOutput' = NotCalled
    /\ mConverged' = TRUE
    /\ UNCHANGED besidesMerge

\* Merge returned skip or an error: nothing is written.
NoWrite ==
    /\ mOutput.out \in {"skip", "error"}
    /\ mOutput' = NotCalled
    /\ UNCHANGED <<mInput, mConverged, besidesMerge>>

\* environment: the resource version and the status of the converged live
\* object change.
LiveObjectChanges ==
    /\ mConverged
    /\ mOutput = NotCalled
    /\ \E rv \in ResourceVersions, st \in StatusValues :
        /\ rv # mInput.current["metadata.resourceVersion"]
        /\ mInput' = [mInput EXCEPT !.current["metadata.resourceVersion"] = rv,
                                    !.current["status.availableReplicas"] = st]
    /\ UNCHANGED <<mOutput, mConverged, besidesMerge>>

MergeNext ==
    \/ MergeCall
    \/ WriteBack
    \/ NoWrite
    \/ LiveObjectChanges

SpecMerge == MergeInit /\ [][MergeNext]_vars

\* Merge has returned for the arguments in mInput.
Returned == mOutput # NotCalled /\ mOutput # [out |-> "idle"]

\* C16 as stated: when the schema lookup fails with an error, Merge still
\* produces a merge result by the schema-free path.
C16_Original ==
    (Returned /\ mInput.sg = "error") => mOutput.out # "error"

\* What the schema-free path returns.
SchemaFree(in) ==
    LET patched == mergeUntyped(in.new, in.old, in.current) IN
    IF in.current = patched THEN [out |-> "skip", typed |-> FALSE]
    ELSE [out |-> "merged", typed |-> FALSE, obj |-> patched]

\* C16: when the schema lookup fails with an error, Merge returns an error
\* and no merge result; it takes the schema-free path exactly when the
\* lookup succeeds and yields no type.
C16_Amended ==
    Returned =>
        /\ mInput.sg = "error" => mOutput = [out |-> "error", typed |-> FALSE]
        /\ mInput.sg = "untyped" => mOutput = SchemaFree(mInput)
        /\ mInput.sg = "typed" => mOutput.typed

C16_Witness ==
    /\ mInput.sg = "error"
    /\ mOutput.out = "error"
    /\ SchemaFree(mInput).out = "merged"

\* Merge again, on the live object as it is now.
Again == Merge(mInput.new, mInput.old, mInput.current, mInput.sg)

\* C17 as stated: once the live object is the result of a Merge, whatever
\* happened to its resource version and status, Merge returns skip in both
\* paths.
C17_Original ==
    (mConverged /\ mInput.sg # "error") => Again.out = "skip"

\* A JSON round trip leaves the object as it is.
JSONStable(o) == UnmarshalJSON(MarshalJSON(o)) = o

\* C17: once the live object is the result of a Merge, whatever happened to
\* its resource version and status, Merge returns skip in the schema-aware
\* path; in the schema-free path it returns skip if a JSON round trip
\* leaves the live object unchanged, and else the round trip of the live
\* object.
C17_Amended ==
    mConverged =>
        /\ mInput.sg = "typed" => Again.out = "skip"
        /\ mInput.sg = "untyped" =>
               IF JSONStable(mInput.current) THEN Again.out = "skip"
               ELSE Again = [out |-> "merged", typed |-> FALSE,
                             obj |-> UnmarshalJSON(MarshalJSON(mInput.current))]

C17_Witness ==
    /\ mConverged
    /\ mInput.sg = "untyped"
    /\ mInput.current["status.availableReplicas"] = Int64(2)
    /\ ~mInput.old.nil
    /\ mOutput.out = "skip"

\* Two values are the same number, or both absent.
SameValue(a, b) == (a = Absent) = (b = Absent) /\ a.n = b.n

\* The object after the reconciler acted on what Merge returned.
Outcome == IF mOutput.out = "merged" THEN mOutput.obj ELSE mInput.current

\* Neither new nor old mentions the field.
Foreign(p) ==
    /\ mInput.new.value[p] = Absent
    /\ mInput.old.nil \/ mInput.old.value[p] = Absent

Dropped == {p \in LivePaths : mInput.current[p] # Absent /\ Outcome[p] = Absent}

MaxOps == 2
\* a manifest hash has up to MaxHashLen bytes
MaxHashLen == 2

Str(x) == [kind |-> "string", s |-> x]
NotAString == [kind |-> "number", s |-> ""]
Missing == [kind |-> "missing", s |-> ""]

DeletionTimestampPath == "/metadata/deletionTimestamp"

\* the paths of the operations: the deletion timestamp, and a field of an
\* object the placeholder does not have
PatchPaths == {DeletionTimestampPath, "/data/foo"}
PatchValues == {Str(""), Str("anything"), NotAString}

PatchOps ==
    [op : {"add", "replace", "test"}, path : PatchPaths, value : PatchValues]
        \cup [op : {"remove"}, path : PatchPaths, value : {NotAString}]

NilPatch == [nil |-> TRUE]

Patches ==
    {NilPatch} \cup {[nil |-> FALSE, ops |-> o] : o \in UNION {[1..n -> PatchOps] : n \in 0..MaxOps}}

\* A JSON document: its metadata.deletionTimestamp, whether it has a data
\* object, and data.foo.  The placeholder is
\* {"apiVersion": "eno.azure.io/v1", "kind": "PatchPlaceholder", "metadata": {}}
Placeholder == [err |-> FALSE, dt |-> Missing, data |-> FALSE, foo |-> Missing]

\* One operation applied to the document: add needs the parent object,
\* replace, remove and test need the field itself.
applyOp(doc, o) ==
    LET f == IF o.path = DeletionTimestampPath THEN "dt" ELSE "foo"
        parent == IF o.path = DeletionTimestampPath THEN TRUE ELSE doc.data
    IN  IF doc.err THEN doc
        ELSE IF ~parent THEN [doc EXCEPT !.err = TRUE]
        ELSE IF o.op = "add" THEN [doc EXCEPT ![f] = o.value]
        ELSE IF doc[f] = Missing THEN [doc EXCEPT !.err = TRUE]
        ELSE IF o.op = "replace" THEN [doc EXCEPT ![f] = o.value]
        ELSE IF o.op = "remove" THEN [doc EXCEPT ![f] = Missing]
        ELSE IF doc[f] = o.value THEN doc
        ELSE [doc EXCEPT !.err = TRUE]

RECURSIVE Apply(_, _)
\* r.Patch.Apply(doc)
Apply(ops, doc) ==
    IF ops = <<>> THEN doc ELSE Apply(Tail(ops), applyOp(doc, Head(ops)))

\* Mutant: an empty timestamp counts.
NestedString_Found(v) == IF v.kind = "string" THEN "set" ELSE ""

\* unstructured.NestedString: the string at the path, "" when there is
\* none or the value is no string.
NestedString(v) == IF v.kind = "string" THEN v.s ELSE ""

\* Resource.patchSetsDeletionTimestamp
patchSetsDeletionTimestamp(patch) ==
    IF patch.nil THEN FALSE
    ELSE LET patched == Apply(patch.ops, Placeholder) IN
         IF patched.err THEN FALSE
         ELSE NestedString(patched.dt) # ""

\* Mutant: the orphaning of the resources is not looked at.
Deleted_IgnoresOrphaning(in) ==
    \/ in.comp.deleting
    \/ in.manifestDeleted
    \/ ~in.patch.nil /\ patchSetsDeletionTimestamp(in.patch)

\* Resource.Deleted(comp)
Deleted(in) ==
    \/ in.comp.deleting /\ ~in.comp.orphan
    \/ in.manifestDeleted
    \/ ~in.patch.nil /\ patchSetsDeletionTimestamp(in.patch)

DeletedInit ==
    /\ LifecycleIdle
    /\ AggregationIdle
    /\ WritersIdle
    /\ ReconIdle
    /\ SliceIdle
    /\ SymphonyIdle
    /\ MergeIdle
    /\ CallIdle
    /\ dInput \in [comp : [deleting : {FALSE}, orphan : BOOLEAN],
                   manifestDeleted : BOOLEAN, patch : Patches]
    /\ dOutput = "none"

\* The reconciler asks whether the resource is deleted.
DeletedCall ==
    /\ dOutput = "none"
    /\ dOutput' = IF Deleted(dInput) THEN "deleted" ELSE "kept"
    /\ UNCHANGED <<dInput, besidesDeleted>>

\* environment: the composition is deleted.
DeletedCompositionDeleted ==
    /\ dOutput \in {"deleted", "kept"}
    /\ ~dInput.comp.deleting
    /\ dInput' = [dInput EXCEPT !.comp.deleting = TRUE]
    /\ dOutput' = "none"
    /\ UNCHANGED besidesDeleted

DeletedNext == DeletedCall \/ DeletedCompositionDeleted

SpecDeleted == DeletedInit /\ [][DeletedNext]_vars

\* The operations up to k that write or remove the deletion timestamp.
Writers(ops, k) ==
    {i \in 1..k : ops[i].path = DeletionTimestampPath /\ ops[i].op \in {"add", "replace", "remove"}}

\* The deletion timestamp after the first k operations, if none failed.
TimestampAfter(ops, k) ==
    IF Writers(ops, k) = {} THEN Missing
    ELSE LET o == ops[CHOOSE i \in Writers(ops, k) : \A j \in Writers(ops, k) : j <= i]
         IN IF o.op = "remove" THEN Missing ELSE o.value

\* The operation k applies to the document the operations before it left.
Applies(ops, k) ==
    /\ ops[k].path = DeletionTimestampPath
    /\ ops[k].op \in {"replace", "remove"} => TimestampAfter(ops, k - 1) # Missing
    /\ ops[k].op = "test" => TimestampAfter(ops, k - 1) = ops[k].value

\* The patch applies to the placeholder and leaves a non-empty string as
\* its metadata.deletionTimestamp.
SetsDeletionTimestamp(patch) ==
    IF patch.nil THEN FALSE
    ELSE /\ \A k \in 1..Len(patch.ops) : Applies(patch.ops, k)
         /\ TimestampAfter(patch.ops, Len(patch.ops)).kind = "string"
         /\ TimestampAfter(patch.ops, Len(patch.ops)).s # ""

\* C20: Deleted is true iff the composition is being deleted and does not
\* orphan its resources, or the manifest is marked deleted, or the resource
\* has a patch that applies to the placeholder object and leaves it with a
\* non-empty string as metadata.deletionTimestamp.
C20_DeletionPredicate ==
    dOutput \in {"deleted", "kept"} =>
        (dOutput = "deleted") =
            \/ dInput.comp.deleting /\ ~dInput.comp.orphan
            \/ dInput.manifestDeleted
            \/ SetsDeletionTimestamp(dInput.patch)

C20_Witness ==
    /\ dOutput = "deleted"
    /\ ~dInput.manifestDeleted
    /\ dInput.comp.deleting /\ dInput.comp.orphan
    /\ dInput.patch = [nil |-> FALSE,
                       ops |-> <<[op |-> "add", path |-> DeletionTimestampPath, value |-> Str("anything")]>>]


\* ====================================================================
\* Part VII: the reconciler's questions to a resource
\* (src/internal/resource/resource.go)
\* ====================================================================

\* ------------------------------------------- Resource.NeedsToBePatched
\* numbers of a live object in memory
Int64Value == [kind |-> "int64", s |-> ""]
Float64Value == [kind |-> "float64", s |-> ""]

LiveValues == {Missing, Str(""), Str("anything"), Int64Value, Float64Value}

NilCurrent == [nil |-> TRUE]

\* the live objects: no object, or one with a deletion timestamp or none,
\* and with a data object or none
LiveDocs ==
    {NilCurrent} \cup
    {d \in [nil : {FALSE}, dt : LiveValues, data : BOOLEAN, foo : LiveValues] :
        ~d.data => d.foo = Missing}

\* json.Marshal of a value: a number has no Go type in JSON
marshalValue(v) == IF v.kind \in {"int64", "float64"} THEN NotAString ELSE v

\* json.Unmarshal of a value into an unstructured object: an integral
\* number is read as int64
unmarshalValue(v) == IF v.kind = "number" THEN Int64Value ELSE v

\* current.MarshalJSON()
marshalCurrent(current) ==
    [err |-> FALSE, dt |-> marshalValue(current.dt), data |-> current.data,
     foo |-> marshalValue(current.foo)]

\* patched.UnmarshalJSON(patchedjson)
unmarshalPatched(js) ==
    [nil |-> FALSE, dt |-> unmarshalValue(js.dt), data |-> js.data,
     foo |-> unmarshalValue(js.foo)]

\* Mutant: a patch that cannot be applied asks for a write.
NeedsToBePatched_ErrorWrites(patch, current) ==
    IF patch.nil \/ current.nil THEN FALSE
    ELSE LET patchedjson == Apply(patch.ops, marshalCurrent(current)) IN
         IF patchedjson.err THEN TRUE
         ELSE unmarshalPatched(patchedjson) # current

\* Resource.NeedsToBePatched(current)
NeedsToBePatched(patch, current) ==
    IF patch.nil \/ current.nil THEN FALSE
    ELSE LET patchedjson == Apply(patch.ops, marshalCurrent(current)) IN
         IF patchedjson.err THEN FALSE
         ELSE unmarshalPatched(patchedjson) # current

PatchInit ==
    /\ LifecycleIdle
    /\ AggregationIdle
    /\ WritersIdle
    /\ ReconIdle
    /\ SliceIdle
    /\ SymphonyIdle
    /\ MergeIdle
    /\ DeletedIdle
    /\ call \in [fn : {"NeedsToBePatched"}, patch : Patches, current : LiveDocs]
    /\ result = [out |-> "none"]

\* The reconciler asks whether the live object needs the patch.
PatchCall ==
    /\ call.fn = "NeedsToBePatched"
    /\ result.out = "none"
    /\ result' = [out |-> IF NeedsToBePatched(call.patch, call.current)
                          THEN "patch" ELSE "leave"]
    /\ UNCHANGED <<call, besidesCall>>

\* The reconciler writes the patched object, and the API server's copy of
\* it is the live object of the next call.
PatchWrite ==
    /\ call.fn = "NeedsToBePatched"
    /\ result.out = "patch"
    /\ call' = [call EXCEPT !.current =
                   unmarshalPatched(Apply(call.patch.ops, marshalCurrent(call.current)))]
    /\ result' = [out |-> "none"]
    /\ UNCHANGED besidesCall

PatchNext == PatchCall \/ PatchWrite

SpecPatch == PatchInit /\ [][PatchNext]_vars

\* the operations of the patch that write the field, in order
FieldOps(path) ==
    SelectSeq(call.patch.ops, LAMBDA o : o.path = path /\ o.op # "test")

\* the JSON value of a field of the live object
LiveJSON(path) ==
    marshalValue(IF path = DeletionTimestampPath THEN call.current.dt ELSE call.current.foo)

\* the JSON value of the field once the operations are applied: what the
\* last add or replace wrote, nothing after a remove, else the live value
PatchedJSON(path) ==
    LET w == FieldOps(path) IN
    IF w = <<>> THEN LiveJSON(path)
    ELSE IF w[Len(w)].op = "remove" THEN Missing
    ELSE w[Len(w)].value

\* the patch can be applied to the live object
PatchApplies == ~Apply(call.patch.ops, marshalCurrent(call.current)).err

\* the object read back from the patched JSON differs from the live object:
\* in the value of a field, or in the Go type of a number
SemanticallyDifferent ==
    \/ \E path \in PatchPaths : PatchedJSON(path) # LiveJSON(path)
    \/ Float64Value \in {call.current.dt, call.current.foo}

NoAnnotation == [present |-> FALSE, str |-> ""]
Annotation(str) == [present |-> TRUE, str |-> str]

\* values of eno.azure.io/reconcile-interval manifests carry
IntervalStrings == {"", "0", "10s", "1m", "10", "bogus"}
\* values of eno.azure.io/disable-updates
BoolStrings == {"true", "false"}
\* values of eno.azure.io/readiness-group
GroupStrings == {"1", "-1", "one"}

\* time.ParseDuration, in seconds: a number needs a unit, except zero
ParseDuration(str) ==
    CASE str = "0" -> [err |-> FALSE, d |-> 0]
      [] str = "10s" -> [err |-> FALSE, d |-> 10]
      [] str = "1m" -> [err |-> FALSE, d |-> 60]
      [] OTHER -> [err |-> TRUE, d |-> 0]

\* strconv.Atoi
Atoi(str) ==
    CASE str = "1" -> [err |-> FALSE, n |-> 1]
      [] str = "-1" -> [err |-> FALSE, n |-> -1]
      [] OTHER -> [err |-> TRUE, n |-> 0]

\* Resource.ReconcileInterval is a pointer
NilInterval == [nil |-> TRUE, d |-> 0]
Interval(d) == [nil |-> FALSE, d |-> d]

\* the manifests: with or without a name, and with any of the annotations
Manifests ==
    [named : BOOLEAN,
     interval : {NoAnnotation} \cup {Annotation(x) : x \in IntervalStrings},
     disableUpdates : {NoAnnotation} \cup {Annotation(x) : x \in BoolStrings},
     readinessGroup : {NoAnnotation} \cup {Annotation(x) : x \in GroupStrings}]

NoResource ==
    [out |-> "error", ReconcileInterval |-> NilInterval, DisableUpdates |-> FALSE,
     ReadinessGroup |-> 0]

\* NewResource: the manifest must name its object; the interval is assigned
\* whenever the annotation is there, the readiness group only when it parses.
NewResource(m) ==
    IF ~m.named THEN NoResource
    ELSE [out |-> "resource",
          ReconcileInterval |->
              IF m.interval.present
              THEN Interval(ParseDuration(m.interval.str).d)
              ELSE NilInterval,
          DisableUpdates |->
              m.disableUpdates.present /\ m.disableUpdates.str = "true",
          ReadinessGroup |->
              IF m.readinessGroup.present /\ ~Atoi(m.readinessGroup.str).err
              THEN Atoi(m.readinessGroup.str).n
              ELSE 0]

NewResourceInit ==
    /\ LifecycleIdle
    /\ AggregationIdle
    /\ WritersIdle
    /\ ReconIdle
    /\ SliceIdle
    /\ SymphonyIdle
    /\ MergeIdle
    /\ DeletedIdle
    /\ call \in [fn : {"NewResource"}, manifest : Manifests]
    /\ result = [out |-> "none"]

\* The reconstituter builds the resource of a manifest.
NewResourceCall ==
    /\ call.fn = "NewResource"
    /\ result.out = "none"
    /\ result' = NewResource(call.manifest)
    /\ UNCHANGED <<call, besidesCall>>

NewResourceNext == NewResourceCall

SpecNewResource == NewResourceInit /\ [][NewResourceNext]_vars

\* NewResource has returned for the manifest
Built == call.fn = "NewResource" /\ result.out # "none"

\* the annotation is there and its value is no duration
InvalidInterval ==
    call.manifest.interval.present /\ ParseDuration(call.manifest.interval.str).err

\* C22: an invalid reconcile-interval does not make NewResource fail and
\* leaves ReconcileInterval as without the annotation, unset; a valid one
\* yields the parsed duration.
C22_InvalidIntervalIgnored ==
    (Built /\ call.manifest.named /\ call.manifest.interval.present) =>
        /\ result.out = "resource"
        /\ result.ReconcileInterval =
              IF InvalidInterval THEN NilInterval
              ELSE Interval(ParseDuration(call.manifest.interval.str).d)

\* What the code does with an invalid value: the interval is set, to zero.
C22_InvalidIntervalIsZero ==
    (Built /\ call.manifest.named /\ call.manifest.interval.present) =>
        /\ result.out = "resource"
        /\ result.ReconcileInterval =
              IF InvalidInterval THEN Interval(0)
              ELSE Interval(ParseDuration(call.manifest.interval.str).d)

C22_InvalidSeen == Built /\ call.manifest.named /\ InvalidInterval


\* ------------------------------------------------------- Resource.Less
\* ManifestHash is a byte string: of 8 bytes from NewResource, of any
\* length and also empty in the ordering test
HashBytes == {1, 2}
ManifestHashes == UNION {[1..n -> HashBytes] : n \in 0..MaxHashLen}

\* two slices may hold a manifest for the same Ref
ManifestRefs == {1, 2}

OrderedResources == [ManifestHash : ManifestHashes, ManifestRef : ManifestRefs]

RECURSIVE Compare(_, _)
\* bytes.Compare: lexicographic, a proper prefix first
Compare(a, b) ==
    IF a = <<>> /\ b = <<>> THEN 0
    ELSE IF a = <<>> THEN -1
    ELSE IF b = <<>> THEN 1
    ELSE IF Head(a) < Head(b) THEN -1
    ELSE IF Head(a) > Head(b) THEN 1
    ELSE Compare(Tail(a), Tail(b))

\* Mutant: a resource is less than one of the same hash.
Less_OrEqual(r, than) == Compare(r.ManifestHash, than.ManifestHash) <= 0

\* Resource.Less(than)
Less(r, than) == Compare(r.ManifestHash, than.ManifestHash) < 0

Arguments == {"a", "b", "c"}

OrderInit ==
    /\ LifecycleIdle
    /\ AggregationIdle
    /\ WritersIdle
    /\ ReconIdle
    /\ SliceIdle
    /\ SymphonyIdle
    /\ MergeIdle
    /\ DeletedIdle
    /\ call \in [fn : {"Less"}, a : OrderedResources, b : OrderedResources,
                 c : OrderedResources]
    /\ result = [out |-> "cache", winner |-> "none", inserted |-> {}]

\* A resource for the Ref arrives: the cache keeps the one that is Less
\* than the other, and the one it has when neither is.
InsertResource(x) ==
    /\ call.fn = "Less"
    /\ x \notin result.inserted
    /\ result' = [out |-> "cache",
                  winner |-> IF result.winner = "none" THEN x
                             ELSE IF Less(call[x], call[result.winner]) THEN x
                             ELSE result.winner,
                  inserted |-> result.inserted \cup {x}]
    /\ UNCHANGED <<call, besidesCall>>

OrderNext == \E x \in Arguments : InsertResource(x)

SpecOrder == OrderInit /\ [][OrderNext]_vars

\* Less orders the three resources strictly by their hashes
StrictOrder ==
    \A x, y, z \in Arguments :
        /\ ~Less(call[x], call[x])
        /\ Less(call[x], call[y]) => ~Less(call[y], call[x])
        /\ (Less(call[x], call[y]) /\ Less(call[y], call[z])) => Less(call[x], call[z])
        /\ (call[x].ManifestHash = <<>> /\ call[y].ManifestHash # <<>>)
               => Less(call[x], call[y])
        /\ call[x].ManifestHash # call[y].ManifestHash
               => (Less(call[x], call[y]) # Less(call[y], call[x]))

\* the hash no other of the given resources' hashes is below
LeastHash ==
    CHOOSE h \in {call[x].ManifestHash : x \in Arguments} :
        \A y \in Arguments : Compare(h, call[y].ManifestHash) <= 0

\* C23: Less is a strict order on the hashes, with the empty hash first and
\* exactly one direction for different hashes; and whichever order the
\* resources of a Ref were inserted in, the manifest reconciled is the same,
\* the one with the least hash.
C23_OrderingDeterminism ==
    call.fn = "Less" =>
        /\ StrictOrder
        /\ result.inserted = Arguments =>
               call[result.winner].ManifestHash = LeastHash

\* two resources of one hash from different slices and one of another
\* hash have all been inserted
C23_Witness ==
    /\ call.fn = "Less"
    /\ result.inserted = Arguments
    /\ call.a.ManifestHash = call.b.ManifestHash
    /\ call.a.ManifestRef # call.b.ManifestRef
    /\ call.c.ManifestHash # call.a.ManifestHash
    /\ call.c.ManifestHash # <<>>
    /\ result.winner = "b"


\* ====================================================================
\* Part VIII: the symphony aggregation controller (src/unnamed/part_002)
\* ====================================================================
\* It aggregates the status of the compositions of a symphony into the
\* status of the symphony.  A timestamp is a number, later ones greater;
\* a composition is [synth, generation, deleting, cur] with cur its
\* current synthesis [nil, observed, Ready, Reconciled, Synthesized].

\* the timestamps are 1..MaxTime
MaxTime == 2

\* a nil *metav1.Time
NilTime == 0

Times == 1..MaxTime

\* the generation of a composition whose spec has been updated once
UpdatedGeneration == 2

\* a composition list has up to ListedCompositions items
ListedCompositions == 2

\* Status.CurrentSynthesis == nil
NoSynthesis ==
    [nil |-> TRUE, observed |-> 0, Ready |-> NilTime, Reconciled |-> NilTime,
     Synthesized |-> NilTime]

Syntheses ==
    {NoSynthesis} \cup
    [nil : {FALSE}, observed : 1..UpdatedGeneration, Ready : {NilTime} \cup Times,
     Reconciled : {NilTime} \cup Times, Synthesized : {NilTime} \cup Times]

AggregatedCompositions ==
    [synth : SynthNames, generation : {UpdatedGeneration}, deleting : BOOLEAN,
     cur : Syntheses]

CompositionLists ==
    UNION {[1..n -> AggregatedCompositions] : n \in 0..ListedCompositions}

\* the zero value of apiv1.SymphonyStatus
EmptyStatus ==
    [ObservedGeneration |-> 0, Synthesizers |-> <<>>, Ready |-> NilTime,
     Reconciled |-> NilTime, Synthesized |-> NilTime]

\* (*metav1.Time).Before: false when either time is nil
Before(t, u) == t # NilTime /\ u # NilTime /\ t < u

\* Mutant: the earliest timestamp is kept.
later_Earliest(t, u) == IF Before(u, t) \/ t = NilTime THEN u ELSE t

\* the timestamp the first loop keeps: the composition's when it is later
\* or none is held yet
later(t, u) == IF Before(t, u) \/ t = NilTime THEN u ELSE t

RECURSIVE maxValues(_, _)
\* buildStatus, first loop: "find the max values"
maxValues(st, items) ==
    IF items = <<>> THEN st
    ELSE LET c == Head(items) IN
         IF c.cur.nil THEN maxValues(st, Tail(items))
         ELSE maxValues([st EXCEPT !.Ready = later(@, c.cur.Ready),
                                   !.Reconciled = later(@, c.cur.Reconciled),
                                   !.Synthesized = later(@, c.cur.Synthesized)],
                        Tail(items))

\* Mutant: a composition that lacks a timestamp does not clear it.
cleared_Never(t, u) == t

\* the timestamp the second loop keeps: none when the composition has none
cleared(t, u) == IF u = NilTime THEN NilTime ELSE t

RECURSIVE filterValues(_, _, _)
\* buildStatus, second loop: "filter any values where one or more
\* composition hasn't reached the corresponding state"
filterValues(st, items, synthMap) ==
    IF items = <<>> THEN [status |-> st, returned |-> FALSE, synthMap |-> synthMap]
    ELSE LET c == Head(items) IN
         IF c.cur.nil \/ c.cur.observed # c.generation \/ c.deleting
         THEN [status |-> [st EXCEPT !.Ready = NilTime, !.Reconciled = NilTime,
                                     !.Synthesized = NilTime],
               returned |-> TRUE, synthMap |-> synthMap]
         ELSE filterValues([st EXCEPT !.Ready = cleared(@, c.cur.Ready),
                                      !.Reconciled = cleared(@, c.cur.Reconciled),
                                      !.Synthesized = cleared(@, c.cur.Synthesized)],
                           Tail(items), synthMap \cup {c.synth})

\* Mutant: the status is written before every variation has a composition.
buildStatus_AnyVariations(sy, items) ==
    LET newStatus == [EmptyStatus EXCEPT !.ObservedGeneration = sy.generation,
                                         !.Synthesizers = sy.status.Synthesizers]
        f == filterValues(maxValues(newStatus, items), items, {})
    IN  IF f.returned THEN [status |-> f.status, ok |-> FALSE]
        ELSE [status |-> f.status, ok |-> f.status # sy.status]

\* symphonyController.buildStatus(symph, comps): the new status, and
\* whether it is to be written
buildStatus(sy, items) ==
    LET newStatus == [EmptyStatus EXCEPT !.ObservedGeneration = sy.generation,
                                         !.Synthesizers = sy.status.Synthesizers]
        f == filterValues(maxValues(newStatus, items), items, {})
    IN  IF f.returned THEN [status |-> f.status, ok |-> FALSE]
        ELSE IF \E v \in sy.variations : v \notin f.synthMap
        THEN [status |-> f.status, ok |-> FALSE]
        ELSE [status |-> f.status, ok |-> f.status # sy.status]

BuildStatusInit ==
    /\ LifecycleIdle
    /\ AggregationIdle
    /\ WritersIdle
    /\ ReconIdle
    /\ SliceIdle
    /\ SymphonyIdle
    /\ MergeIdle
    /\ DeletedIdle
    /\ call \in [fn : {"buildStatus"},
                 symph : [generation : 1..MaxGen, variations : VariationSets,
                          status : {EmptyStatus}],
                 comps : CompositionLists]
    /\ result = [out |-> "none"]

\* The controller builds the status of the symphony.
BuildStatusCall ==
    /\ call.fn = "buildStatus"
    /\ result.out = "none"
    /\ result' = [out |-> "status", status |-> buildStatus(call.symph, call.comps).status]
    /\ UNCHANGED <<call, besidesCall>>

BuildStatusNext == BuildStatusCall

SpecBuildStatus == BuildStatusInit /\ [][BuildStatusNext]_vars

\* the listed compositions
Listed == {call.comps[i] : i \in 1..Len(call.comps)}

\* the composition's current synthesis has the timestamp set
HasTime(c, field) == IF c.cur.nil THEN FALSE ELSE c.cur[field] # NilTime

\* the latest of the compositions' timestamps
Latest(field) ==
    CHOOSE t \in {c.cur[field] : c \in Listed} : \A c \in Listed : c.cur[field] <= t

\* the composition's current synthesis is of its generation, and the
\* composition is not deleting
UpToDate(c) == ~c.cur.nil /\ c.cur.observed = c.generation /\ ~c.deleting

TimestampFields == {"Ready", "Reconciled", "Synthesized"}

\* C28 as stated: a timestamp of the built status is set iff every listed
\* composition's current synthesis has it set, and is then the latest of
\* theirs; ObservedGeneration is the symphony's generation.
C28_Original ==
    (call.fn = "buildStatus" /\ result.out = "status") =>
        /\ result.status.ObservedGeneration = call.symph.generation
        /\ \A field \in TimestampFields :
              /\ (result.status[field] # NilTime) <=> (\A c \in Listed : HasTime(c, field))
              /\ result.status[field] # NilTime => result.status[field] = Latest(field)

\* C28: a timestamp of the built status is set iff there is a listed
\* composition, every listed composition is not deleting and has a current
\* synthesis of its generation, and each of them has the timestamp set; it
\* is then the latest of theirs.  ObservedGeneration is the symphony's
\* generation.
C28_Amended ==
    (call.fn = "buildStatus" /\ result.out = "status") =>
        /\ result.status.ObservedGeneration = call.symph.generation
        /\ \A field \in TimestampFields :
              /\ (result.status[field] # NilTime) <=>
                     /\ Listed # {}
                     /\ \A c \in Listed : UpToDate(c) /\ HasTime(c, field)
              /\ result.status[field] # NilTime => result.status[field] = Latest(field)

\* the "two ready" case: two compositions ready at different times, the
\* later one listed first
C28_Witness ==
    /\ call.fn = "buildStatus"
    /\ result.out = "status"
    /\ Len(call.comps) = 2
    /\ result.status.Ready = 2
    /\ call.comps[1].cur.Ready = 2
    /\ call.comps[2].cur.Ready = 1
    /\ result.status.Reconciled = NilTime


\* ------------------------------------- the passes of the controller
\* the timestamps of a synthesis, in the order they are set
Progress == <<"Synthesized", "Reconciled", "Ready">>

\* the first timestamp the synthesis does not have yet, 0 if it has all
NextTimestamp(syn) ==
    IF syn.Synthesized = NilTime THEN 1
    ELSE IF syn.Reconciled = NilTime THEN 2
    ELSE IF syn.Ready = NilTime THEN 3
    ELSE 0

AggregationFailures == {"none", "list", "patch"}

\* symphonyController.Reconcile: the status is built from the symphony and
\* its compositions and, when buildStatus says so, patched.
AggregationReconcile(fail) ==
    /\ agSymph.exists
    /\ LET b == buildStatus(agSymph, agComps) IN
       IF fail = "list" THEN
           /\ agPass' = [step |-> "error", writes |-> <<>>]
           /\ UNCHANGED agSymph
       ELSE IF ~b.ok THEN
           /\ agPass' = [step |-> "ok", writes |-> <<>>]
           /\ UNCHANGED agSymph
       ELSE IF fail = "patch" THEN
           /\ agPass' = [step |-> "error", writes |-> <<>>]
           /\ UNCHANGED agSymph
       ELSE
           /\ agSymph' = [agSymph EXCEPT !.status = b.status]
           /\ agPass' = [step |-> "ok", writes |-> <<"symphony/status">>]
    /\ UNCHANGED <<agComps, agNow, besidesAggregation>>

\* environment: the replication controller has created the composition of
\* a variation.
AgCompositionCreated(sy) ==
    /\ agSymph.exists
    /\ sy \in agSymph.variations
    /\ \A i \in 1..Len(agComps) : agComps[i].synth # sy
    /\ agComps' = Append(agComps, [synth |-> sy, generation |-> 1, deleting |-> FALSE,
                                   cur |-> NoSynthesis])
    /\ agPass' = [step |-> "env", writes |-> <<>>]
    /\ UNCHANGED <<agSymph, agNow, besidesAggregation>>

\* environment: the replication controller updates the spec of the
\* composition, whose generation grows.
AgCompositionUpdated(i) ==
    /\ i \in 1..Len(agComps)
    /\ agComps[i].generation < UpdatedGeneration
    /\ agComps' = [agComps EXCEPT ![i].generation = @ + 1]
    /\ agPass' = [step |-> "env", writes |-> <<>>]
    /\ UNCHANGED <<agSymph, agNow, besidesAggregation>>

\* environment: a synthesis of the composition's generation becomes its
\* current synthesis.
AgSynthesisStarts(i) ==
    /\ i \in 1..Len(agComps)
    /\ agComps[i].cur.observed # agComps[i].generation
    /\ agComps' = [agComps EXCEPT ![i].cur =
                      [NoSynthesis EXCEPT !.nil = FALSE, !.observed = agComps[i].generation]]
    /\ agPass' = [step |-> "env", writes |-> <<>>]
    /\ UNCHANGED <<agSymph, agNow, besidesAggregation>>

\* environment: the current synthesis is synthesized, then reconciled, then
\* ready.
AgSynthesisAdvances(i) ==
    /\ i \in 1..Len(agComps)
    /\ ~agComps[i].cur.nil
    /\ NextTimestamp(agComps[i].cur) # 0
    /\ agComps' = [agComps EXCEPT ![i].cur[Progress[NextTimestamp(agComps[i].cur)]] = agNow]
    /\ agPass' = [step |-> "env", writes |-> <<>>]
    /\ UNCHANGED <<agSymph, agNow, besidesAggregation>>

\* environment: the composition is deleted, by the replication controller
\* or by a user; its finalizer holds it.
AgCompositionDeleted(i) ==
    /\ i \in 1..Len(agComps)
    /\ ~agComps[i].deleting
    /\ agComps' = [agComps EXCEPT ![i].deleting = TRUE]
    /\ agPass' = [step |-> "env", writes |-> <<>>]
    /\ UNCHANGED <<agSymph, agNow, besidesAggregation>>

\* environment: time passes.
AgTick ==
    /\ agSymph.exists
    /\ agNow < MaxTime
    /\ agNow' = agNow + 1
    /\ agPass' = [step |-> "env", writes |-> <<>>]
    /\ UNCHANGED <<agSymph, agComps, besidesAggregation>>

AggregationInit ==
    /\ LifecycleIdle
    /\ ReconIdle
    /\ SliceIdle
    /\ SymphonyIdle
    /\ MergeIdle
    /\ DeletedIdle
    /\ CallIdle
    /\ WritersIdle
    /\ agSymph \in [exists : {TRUE}, generation : {1}, variations : VariationSets,
                    status : {EmptyStatus}]
    /\ agComps = <<>>
    /\ agNow = 1
    /\ agPass = [step |-> "init", writes |-> <<>>]

AggregationNext ==
    \/ \E fail \in AggregationFailures : AggregationReconcile(fail)
    \/ \E sy \in SynthNames : AgCompositionCreated(sy)
    \/ \E i \in 1..ListedCompositions : AgCompositionUpdated(i)
    \/ \E i \in 1..ListedCompositions : AgSynthesisStarts(i)
    \/ \E i \in 1..ListedCompositions : AgSynthesisAdvances(i)
    \/ \E i \in 1..ListedCompositions : AgCompositionDeleted(i)
    \/ AgTick

SpecAggregation == AggregationInit /\ [][AggregationNext]_vars

\* The controller is started for every event and an error is retried.
SpecAggregationFair ==
    /\ SpecAggregation
    /\ WF_vars(AggregationReconcile("none"))

\* the stored status of the symphony says Reconciled
MarkedReconciled == IF agSymph.exists THEN agSymph.status.Reconciled # NilTime ELSE FALSE

\* the current synthesis of a composition is not of its generation
SomeStale ==
    \E i \in 1..Len(agComps) :
        ~agComps[i].cur.nil /\ agComps[i].cur.observed # agComps[i].generation

\* C29: once the symphony is marked Reconciled and the current synthesis of
\* one of its compositions is no longer of the composition's generation,
\* the stored Status.Reconciled is eventually cleared.
C29_ReconciledCleared == (MarkedReconciled /\ SomeStale) ~> ~MarkedReconciled

\* C29 for a composition that stays as it is: Status.Reconciled is cleared
\* or the composition gets a synthesis of its generation.
C29_ClearedOrResynthesized == (MarkedReconciled /\ SomeStale) ~> (~MarkedReconciled \/ ~SomeStale)

\* What the code does: no pass changes the stored status while the current
\* synthesis of a listed composition is not of its generation.
C29_StaleLeavesStatus ==
    [][SomeStale => agSymph' = agSymph]_vars

\* the symphony is marked Reconciled, a composition has been updated, and a
\* pass has run and written nothing
C29_StaleSeen ==
    /\ MarkedReconciled
    /\ SomeStale
    /\ agPass = [step |-> "ok", writes |-> <<>>]

\* the compositions the controller lists
AgListed == {agComps[i] : i \in 1..Len(agComps)}

\* every variation has a composition, and every listed composition is not
\* deleting and has a current synthesis of its generation
AllUpToDate ==
    /\ \A v \in agSymph.variations : \E c \in AgListed : c.synth = v
    /\ \A c \in AgListed : UpToDate(c)

MaxResourceVersion == 4

\* no symphony read: the controller is between two passes
NoCopy == [rv |-> 0]

\* the status fields
StatusFields == {"ObservedGeneration", "Synthesizers", "Ready", "Reconciled", "Synthesized"}

\* the lists of synthesizer refs the replication controller writes: the
\* sorted names of the compositions (syncStatus), or the list read with
\* the empty name appended (reconcileForward)
RefLists == {<<>>, <<1>>, <<1, 2>>, <<NoName>>, <<1, NoName>>}

\* the timestamps buildStatus arrives at: those of a synthesis that is
\* synthesized, then reconciled, then ready
AggregatedTimestamps ==
    {[Ready |-> NilTime, Reconciled |-> NilTime, Synthesized |-> NilTime]}
    \cup {[Ready |-> NilTime, Reconciled |-> NilTime, Synthesized |-> t] : t \in Times}
    \cup {[Ready |-> NilTime, Reconciled |-> t, Synthesized |-> t] : t \in Times}
    \cup {[Ready |-> t, Reconciled |-> t, Synthesized |-> t] : t \in Times}

\* Mutant: the patch carries the whole status of the copy.
MergeFrom_WholeStatus(obj, copy) ==
    [f \in StatusFields |-> [sent |-> TRUE, value |-> copy[f]]]

\* client.MergeFrom(symph), applied to the copy: the merge patch of the
\* fields in which the copy differs from the object read (sent), each with
\* the copy's value; a field set to nil is sent as null.
MergeFrom(obj, copy) ==
    [f \in StatusFields |-> [sent |-> copy[f] # obj[f], value |-> copy[f]]]

\* The API server applies a merge patch to the stored status.
StatusPatch(st, patch) ==
    [f \in StatusFields |-> IF patch[f].sent THEN patch[f].value ELSE st[f]]

\* client.Status().Update(ctx, symph): the stored status is replaced by
\* the one sent, unless the object sent is not of the stored resource
\* version.
StatusUpdate(obj, sent) ==
    IF sent.rv = obj.rv
    THEN [ok |-> TRUE, status |-> sent.status]
    ELSE [ok |-> FALSE, status |-> obj.status]

\* The replication controller's pass reads the symphony.
WrReplicationGet ==
    /\ repCopy = NoCopy
    /\ repCopy' = stObject
    /\ wrLast' = [step |-> "get"]
    /\ UNCHANGED <<stObject, agCopy, besidesWriters>>

\* syncStatus or reconcileForward: symph.Status.Synthesizers is set on the
\* object read, which is sent as a status update; the pass ends.
WrReplicationUpdate(refs) ==
    /\ repCopy # NoCopy
    /\ refs # repCopy.status.Synthesizers
    /\ stObject.rv < MaxResourceVersion
    /\ LET sent == [repCopy EXCEPT !.status.Synthesizers = refs]
           r == StatusUpdate(stObject, sent)
       IN /\ stObject' = IF r.ok THEN [stObject EXCEPT !.rv = @ + 1, !.status = r.status]
                         ELSE stObject
          /\ wrLast' = [step |-> IF r.ok THEN "update" ELSE "conflict", refs |-> refs]
    /\ repCopy' = NoCopy
    /\ UNCHANGED <<agCopy, besidesWriters>>

\* The aggregation controller's pass reads the symphony.
WrAggregationGet ==
    /\ agCopy = NoCopy
    /\ agCopy' = stObject
    /\ wrLast' = [step |-> "get"]
    /\ UNCHANGED <<stObject, repCopy, besidesWriters>>

\* symphonyController.Reconcile: the status built from the object read
\* (ObservedGeneration its generation, Synthesizers as read, the
\* timestamps ts) is patched when it differs from the status read; the
\* pass ends.
WrAggregationPatch(ts) ==
    /\ agCopy # NoCopy
    /\ stObject.rv < MaxResourceVersion
    /\ LET newStatus == [ObservedGeneration |-> agCopy.generation,
                         Synthesizers |-> agCopy.status.Synthesizers,
                         Ready |-> ts.Ready, Reconciled |-> ts.Reconciled,
                         Synthesized |-> ts.Synthesized]
       IN /\ newStatus # agCopy.status
          /\ stObject' = [stObject EXCEPT
                            !.rv = @ + 1,
                            !.status = StatusPatch(@, MergeFrom(agCopy.status, newStatus))]
          /\ wrLast' = [step |-> "patch", status |-> newStatus]
    /\ agCopy' = NoCopy
    /\ UNCHANGED <<repCopy, besidesWriters>>

\* environment: the user changes the spec of the symphony.
WrSpecChange ==
    /\ stObject.generation < MaxGen
    /\ stObject.rv < MaxResourceVersion
    /\ stObject' = [stObject EXCEPT !.rv = @ + 1, !.generation = @ + 1]
    /\ wrLast' = [step |-> "env"]
    /\ UNCHANGED <<repCopy, agCopy, besidesWriters>>

WritersInit ==
    /\ LifecycleIdle
    /\ ReconIdle
    /\ SliceIdle
    /\ SymphonyIdle
    /\ MergeIdle
    /\ DeletedIdle
    /\ CallIdle
    /\ AggregationIdle
    /\ stObject = [rv |-> 1, generation |-> 1, status |-> EmptyStatus]
    /\ repCopy = NoCopy
    /\ agCopy = NoCopy
    /\ wrLast = [step |-> "init"]

WritersNext ==
    \/ WrReplicationGet
    \/ \E refs \in RefLists : WrReplicationUpdate(refs)
    \/ WrAggregationGet
    \/ \E ts \in AggregatedTimestamps : WrAggregationPatch(ts)
    \/ WrSpecChange

SpecWriters == WritersInit /\ [][WritersNext]_vars

\* the timestamps and ObservedGeneration of a status
Aggregated(st) ==
    [ObservedGeneration |-> st.ObservedGeneration, Ready |-> st.Ready,
     Reconciled |-> st.Reconciled, Synthesized |-> st.Synthesized]

\* C40: a status update of the replication controller that goes through
\* stores its Synthesizers and leaves ObservedGeneration and the
\* timestamps as the aggregation controller last wrote them; a patch of
\* the aggregation controller stores its ObservedGeneration and
\* timestamps and leaves Synthesizers as the replication controller last
\* wrote it; an update that is refused changes nothing.  So after both
\* writes, in either order, each field holds its writer's value.
C40_NoLostUpdate ==
    /\ [][wrLast'.step = "update"
            => /\ stObject'.status.Synthesizers = wrLast'.refs
               /\ Aggregated(stObject'.status) = Aggregated(stObject.status)]_vars
    /\ [][wrLast'.step = "patch"
            => /\ Aggregated(stObject'.status) = Aggregated(wrLast'.status)
               /\ stObject'.status.Synthesizers = stObject.status.Synthesizers]_vars
    /\ [][wrLast'.step = "conflict" => stObject' = stObject]_vars

\* the aggregation controller has patched the status it read before the
\* replication controller's update went through: the stored Synthesizers
\* is not the one it read, and the timestamps are its own
C40_Witness ==
    /\ wrLast.step = "patch"
    /\ stObject.status.Synthesizers = <<1>>
    /\ wrLast.status.Synthesizers = <<>>
    /\ stObject.status.Ready # NilTime

====
